---- MODULE Spec2Model ----
(***************************************************************************)
(* Model of the trading-bot webhook: the TokenManager credential lifecycle *)
(* (app/token_manager.py), the retry helper and the brokerage wrappers     *)
(* (app/fyers_api.py), the idempotency store (app/idempotency.py) and the  *)
(* /webhook handler (app/routes.py).                                       *)
(*                                                                         *)
(* Time is counted in seconds of UTC.  A naive local timestamp is the UTC  *)
(* second count plus the host's offset from UTC (tz).                      *)
(***************************************************************************)
EXTENDS Integers, Sequences, FiniteSets, TLC

\* ---------------------------------------------------------------- bounds
NThreads == 2
MaxCalls == 2
MaxTicks == 2

MaxRetries == 3
NRequests == 2
MaxStoreTime == 3
NCallers == 3
MaxSingletonCalls == 4

\* ------------------------------------------------------ program constants
TOKEN_VALIDITY_SECONDS == 86400
DEFAULT_RETRIES == 3
INITIAL_DELAY == 1
BACKOFF_FACTOR == 2
DEFAULT_TTL_SECONDS == 86400

\* One step of the model clock (twelve hours) and the time of construction.
TickSeconds == TOKEN_VALIDITY_SECONDS \div 2
StartTime == TOKEN_VALIDITY_SECONDS

\* Offsets of the host clock from UTC, in seconds (UTC, UTC+12).
TzOffsets == {0, TickSeconds}

\* ----------------------------------------------------------------- values
NoneV == "<None>"

\* Python truthiness of an optional string: None and "" are falsy.
Truthy(s) == s \notin {NoneV, ""}

\* A stored timestamp: absent, unparsable, or a naive ISO timestamp.
NoDate == [kind |-> "none", v |-> 0]
BadDate == [kind |-> "bad", v |-> 0]
Naive(x) == [kind |-> "naive", v |-> x]
\* An ISO text with a UTC offset or a Z suffix, by the UTC instant it names.
Aware(x) == [kind |-> "aware", v |-> x]

\* The cached brokerage client: absent, or an object built from a token.
NoClient == [bound |-> FALSE, token |-> ""]
Client(t) == [bound |-> TRUE, token |-> t]

EmptyTokens ==
    [access_token |-> NoneV, refresh_token |-> NoneV,
     issued_at |-> NoDate, expires_at |-> NoDate]

TokenFields == {"access_token", "refresh_token", "issued_at", "expires_at"}

\* The value self._tokens.get(k) gives for a key the dict does not hold.
AbsentValue(k) ==
    IF k \in {"access_token", "refresh_token"} THEN NoneV ELSE NoDate

\* json.dumps(self._tokens): the text holds the keys the dict holds, with
\* their string values.
JsonDumps(r) ==
    [k \in {f \in TokenFields : r[f] # AbsentValue(f)} |-> r[k]]

\* json.load / json.loads, read back through .get().
JsonLoads(text) ==
    [k \in TokenFields |->
        IF k \in DOMAIN text THEN text[k] ELSE AbsentValue(k)]

\* A token file that does not exist.
NoFile == [present |-> FALSE, rec |-> EmptyTokens]

\* A token file or blob, by the record its JSON text parses to.
File(r) == [present |-> TRUE, rec |-> JsonLoads(JsonDumps(r))]

Threads == 1..NThreads

\* Access tokens the provider may hand out (an empty one included).
IssuedTokens == {"", "tA"}

\* Provider answers to the refresh / generate exchange.
RaiseResp == [kind |-> "raise", access_token |-> NoneV, has_rt |-> FALSE,
              refresh_token |-> NoneV]
NotOkResp == [kind |-> "notok", access_token |-> NoneV, has_rt |-> FALSE,
              refresh_token |-> NoneV]
OkResp(a, h) == [kind |-> "ok", access_token |-> a, has_rt |-> h,
                 refresh_token |-> IF h THEN "rN" ELSE NoneV]
ProviderResponses ==
    {RaiseResp, NotOkResp} \cup {OkResp(a, h) : a \in IssuedTokens, h \in BOOLEAN}

\* Outcomes of one _save_tokens() run on the two storage tiers.
SaveOutcomes == {"ok", "local_fail", "remote_fail"}

\* The environments the manager is run in: which of FYERS_AUTH_CODE,
\* FYERS_PIN and GCS_BUCKET_NAME are set.
EnvConfigs ==
    {[authCode |-> TRUE, pin |-> TRUE, bucket |-> TRUE],
     [authCode |-> FALSE, pin |-> TRUE, bucket |-> TRUE],
     [authCode |-> TRUE, pin |-> FALSE, bucket |-> FALSE],
     [authCode |-> FALSE, pin |-> FALSE, bucket |-> FALSE]}

\* Token records that may be on disk when the manager is constructed.
InitialRecords ==
    {EmptyTokens,
     [access_token |-> "t0", refresh_token |-> "r0",
      issued_at |-> Naive(0), expires_at |-> Naive(StartTime + TickSeconds)],
     [access_token |-> "t0", refresh_token |-> NoneV,
      issued_at |-> NoDate, expires_at |-> NoDate],
     [access_token |-> "t0", refresh_token |-> NoneV,
      issued_at |-> Naive(0), expires_at |-> BadDate]}

VARIABLES
    tokens,         \* TokenManager._tokens
    fyers,          \* TokenManager._fyers
    localFile,      \* the local tokens.json
    remoteBlob,     \* the GCS blob
    env,            \* FYERS_AUTH_CODE / FYERS_PIN / GCS_BUCKET_NAME set or not
    tz,             \* host clock offset from UTC
    now,            \* current time, UTC seconds
    lock,           \* TokenManager._lock owner (0 = free)
    th,             \* per thread: the manager call in progress and its record
    calls,          \* manager calls started so far
    api,            \* one _retry_api_call / brokerage wrapper invocation
    wh,             \* the webhook requests being handled
    orders,         \* place_order calls made to the brokerage so far
    idem,           \* the IdempotencyStore: its TTL and its entries
    gtm,            \* get_token_manager(): the module's instance, its lock
                    \* and the callers
    eval            \* a function of the request being evaluated: its
                    \* argument and its result

tmVars == <<tokens, fyers, localFile, remoteBlob, env, tz, now, lock, th,
            calls>>

\* ------------------------------------------------------------ TokenManager
\* datetime.now(): the naive local time.
LocalNow(t, z) == t + z

\* datetime.utcnow(): the naive UTC time.
UtcNow(t) == t

PastExpiry_Strictly(nowv, expv) == nowv > expv

\* `return now >= exp_dt`
PastExpiry(nowv, expv) == nowv >= expv

IsTokenExpired_AlwaysExpired(tok, t, z) == TRUE

\* TokenManager._is_token_expired
IsTokenExpired(tok, t, z) ==
    IF ~Truthy(tok.access_token) THEN TRUE
    ELSE IF tok.expires_at.kind = "none" THEN FALSE
    ELSE IF tok.expires_at.kind = "bad" THEN TRUE
    ELSE IF tok.expires_at.kind = "aware"
    THEN PastExpiry(UtcNow(t), tok.expires_at.v)
    ELSE PastExpiry(LocalNow(t, z), tok.expires_at.v)

SaveTokens_UploadsAfterLocalFailure(m, e, sv) ==
    IF ~e.bucket THEN m
    ELSE IF sv = "local_fail" THEN [m EXCEPT !.remote = File(m.tokens)]
    ELSE IF sv = "remote_fail" THEN [m EXCEPT !.local = File(m.tokens)]
    ELSE [m EXCEPT !.local = File(m.tokens), !.remote = File(m.tokens)]

\* TokenManager._save_tokens: local file first, then the remote blob.
SaveTokens(m, e, sv) ==
    IF ~e.bucket THEN m
    ELSE IF sv = "local_fail" THEN m
    ELSE IF sv = "remote_fail" THEN [m EXCEPT !.local = File(m.tokens)]
    ELSE [m EXCEPT !.local = File(m.tokens), !.remote = File(m.tokens)]

\* TokenManager._initialize_fyers_client; initFail: the FyersModel
\* constructor raises.  Returns the new manager state and whether it raised.
InitializeFyersClient(m, initFail) ==
    IF Truthy(m.tokens.access_token)
    THEN IF initFail
         THEN [m |-> [m EXCEPT !.fyers = NoClient], raised |-> TRUE]
         ELSE [m |-> [m EXCEPT !.fyers = Client(m.tokens.access_token)],
               raised |-> FALSE]
    ELSE [m |-> m, raised |-> FALSE]

Invalidate_KeepsClient(m) == m

\* `self._fyers = None` after the record was changed and saved.
Invalidate(m) == [m EXCEPT !.fyers = NoClient]

\* refresh_token(): the guard before the provider is contacted.
RefreshMissing(m, e) == ~(Truthy(m.tokens.refresh_token) /\ e.pin)

RefreshRaiseMissing_Silent(m) ==
    [m |-> m, exc |-> "RefreshTokenError", ret |-> NoneV]

\* refresh_token(): the branch taken when the guard fails.
RefreshRaiseMissing(m) ==
    [m |-> [m EXCEPT !.notes = @ + 1], exc |-> "RefreshTokenError",
     ret |-> NoneV]

RefreshStore_DropsRefreshToken(m, resp, t) ==
    [m EXCEPT !.tokens = [access_token |-> resp.access_token,
                          refresh_token |-> resp.refresh_token,
                          issued_at |-> Naive(UtcNow(t)),
                          expires_at |-> Naive(UtcNow(t) + TOKEN_VALIDITY_SECONDS)]]

\* refresh_token(): the token record written on an ok response.
RefreshStore(m, resp, t) ==
    [m EXCEPT !.tokens = [access_token |-> resp.access_token,
                          refresh_token |-> m.tokens.refresh_token,
                          issued_at |-> Naive(UtcNow(t)),
                          expires_at |-> Naive(UtcNow(t) + TOKEN_VALIDITY_SECONDS)]]

\* refresh_token(): everything after the provider answered.
RefreshApply(m, e, t, resp, sv, initFail) ==
    IF resp.kind = "raise"
    THEN [m |-> [m EXCEPT !.notes = @ + 1], exc |-> "RefreshTokenError",
          ret |-> NoneV]
    ELSE IF resp.kind = "notok"
    THEN \* notified before the raise and again by the enclosing handler
         [m |-> [m EXCEPT !.notes = @ + 2], exc |-> "RefreshTokenError",
          ret |-> NoneV]
    ELSE LET saved == SaveTokens(RefreshStore(m, resp, t), e, sv)
             ini == InitializeFyersClient(Invalidate(saved), initFail)
         IN IF ini.raised
            THEN [m |-> [ini.m EXCEPT !.notes = @ + 1],
                  exc |-> "RefreshTokenError", ret |-> NoneV]
            ELSE [m |-> ini.m, exc |-> NoneV, ret |-> resp.access_token]

GenerateMissing_Never(e) == FALSE

\* generate_token(): the authorization-code guard.
GenerateMissing(e) == ~e.authCode

GenerateStore_KeepsRefreshToken(m, resp, t, z) ==
    [m EXCEPT !.tokens = [access_token |-> resp.access_token,
                          refresh_token |-> m.tokens.refresh_token,
                          issued_at |-> Naive(LocalNow(t, z)),
                          expires_at |-> Naive(LocalNow(t, z)
                                               + TOKEN_VALIDITY_SECONDS)]]

\* generate_token(): the token record written on an ok response.
GenerateStore(m, resp, t, z) ==
    [m EXCEPT !.tokens = [access_token |-> resp.access_token,
                          refresh_token |-> IF resp.has_rt
                                            THEN resp.refresh_token
                                            ELSE m.tokens.refresh_token,
                          issued_at |-> Naive(LocalNow(t, z)),
                          expires_at |-> Naive(LocalNow(t, z)
                                               + TOKEN_VALIDITY_SECONDS)]]

\* generate_token(): everything after the provider answered.
GenerateApply(m, e, t, z, resp, sv, initFail) ==
    IF resp.kind \in {"raise", "notok"}
    THEN [m |-> m, exc |-> "TokenManagerException", ret |-> NoneV]
    ELSE LET saved == SaveTokens(GenerateStore(m, resp, t, z), e, sv)
             ini == InitializeFyersClient(Invalidate(saved), initFail)
         IN IF ini.raised
            THEN [m |-> ini.m, exc |-> "TokenManagerException", ret |-> NoneV]
            ELSE [m |-> ini.m, exc |-> NoneV, ret |-> resp.access_token]


\* The manager's mutable state as one value, for the operators above; notes
\* counts the send_notification calls an operation adds.
Mgr ==
    [tokens |-> tokens, fyers |-> fyers, local |-> localFile,
     remote |-> remoteBlob, notes |-> 0]

SetMgr(m) ==
    /\ tokens' = m.tokens
    /\ fyers' = m.fyers
    /\ localFile' = m.local
    /\ remoteBlob' = m.remote

\* ------------------------------------------------- threads calling the manager
Ops == {"gat", "refresh", "generate", "client"}

InFlight == {"wait", "refresh_call", "gen_call", "refresh_store", "gen_store"}

\* A thread with no call made yet.
IdleThread ==
    [op |-> "none", pc |-> "idle", ret |-> NoneV, client |-> NoClient,
     exc |-> NoneV, nRefresh |-> 0, nGen |-> 0, trace |-> <<>>,
     refreshOutcome |-> "none", invokedExpired |-> FALSE,
     lockExpired |-> FALSE, retValid |-> FALSE, conc |-> {}, notes |-> 0,
     io |-> "none", pending |-> NotOkResp, answer |-> "none"]

\* The call returns or raises: the outermost `with self._lock` block is left.
Finish(m, rec, ret, client, exc) ==
    [m |-> m,
     rec |-> [rec EXCEPT !.pc = "done", !.ret = ret, !.client = client,
                         !.exc = exc, !.notes = @ + m.notes,
                         !.retValid =
                             /\ exc = NoneV
                             /\ ~IsTokenExpired(m.tokens, now, tz)
                             /\ \/ ret = m.tokens.access_token
                                \/ client = Client(m.tokens.access_token)],
     hold |-> FALSE]

HoldDuringExchange_Released == FALSE

\* The provider is called inside `with self._lock`: the lock stays held
\* while the exchange is in flight.
HoldDuringExchange == TRUE

\* generate_token() up to the provider call.
BeginGenerate(m, rec) ==
    LET rec1 == [rec EXCEPT !.trace = Append(@, "generate")]
    IN IF GenerateMissing(env)
       THEN Finish(m, rec1, NoneV, NoClient, "AuthCodeMissingError")
       ELSE [m |-> m,
             rec |-> [rec1 EXCEPT !.pc = "gen_call", !.nGen = @ + 1,
                                  !.notes = @ + m.notes],
             hold |-> HoldDuringExchange]

\* get_fyers_client() after its refresh attempt.
ClientTail(m, rec, initFail) ==
    IF m.fyers = NoClient
    THEN LET ini == InitializeFyersClient(m, initFail)
         IN IF ini.raised
            THEN Finish(ini.m, rec, NoneV, NoClient, "TokenManagerException")
            ELSE Finish(ini.m, rec, NoneV, ini.m.fyers, NoneV)
    ELSE Finish(m, rec, NoneV, m.fyers, NoneV)

AfterRefresh_GenerateAlways(r, rec, initFail) ==
    LET rec1 == [rec EXCEPT !.refreshOutcome =
                     IF r.exc # NoneV THEN "raised"
                     ELSE IF Truthy(r.ret) THEN "token" ELSE "empty"]
    IN CASE rec.op = "refresh" -> Finish(r.m, rec1, r.ret, NoClient, r.exc)
         [] rec.op = "gat" -> BeginGenerate(r.m, rec1)
         [] OTHER -> ClientTail(r.m, rec1, initFail)

\* What the caller of refresh_token() does with its outcome r.
AfterRefresh(r, rec, initFail) ==
    LET rec1 == [rec EXCEPT !.refreshOutcome =
                     IF r.exc # NoneV THEN "raised"
                     ELSE IF Truthy(r.ret) THEN "token" ELSE "empty"]
    IN CASE rec.op = "refresh" -> Finish(r.m, rec1, r.ret, NoClient, r.exc)
         [] rec.op = "gat" ->
              IF r.exc = NoneV /\ Truthy(r.ret)
              THEN Finish(r.m, rec1, r.ret, NoClient, NoneV)
              ELSE BeginGenerate(r.m, rec1)
         [] OTHER -> ClientTail(r.m, rec1, initFail)

\* refresh_token() up to the provider call.
BeginRefresh(m, rec, initFail) ==
    LET rec1 == [rec EXCEPT !.trace = Append(@, "refresh")]
    IN IF RefreshMissing(m, env)
       THEN AfterRefresh(RefreshRaiseMissing(m), rec1, initFail)
       ELSE [m |-> m,
             rec |-> [rec1 EXCEPT !.pc = "refresh_call", !.nRefresh = @ + 1],
             hold |-> HoldDuringExchange]

\* get_access_token() from the lock to the first provider call or the return.
GetAccessToken(m, rec, initFail) ==
    IF ~IsTokenExpired(m.tokens, now, tz)
    THEN Finish(m, rec, m.tokens.access_token, NoClient, NoneV)
    ELSE BeginRefresh(m, rec, initFail)

\* get_fyers_client() from the lock to the first provider call or the return.
GetFyersClient(m, rec, initFail) ==
    IF IsTokenExpired(m.tokens, now, tz)
    THEN BeginRefresh(m, rec, initFail)
    ELSE ClientTail(m, rec, initFail)

Apply(t, res) ==
    /\ SetMgr(res.m)
    /\ th' = [th EXCEPT ![t] = res.rec]
    /\ lock' = IF res.hold THEN t ELSE 0

Done(t) == th[t].pc = "done"

Reentrant_PlainLock(owner, t) == FALSE

\* threading.RLock: the thread that owns the lock enters `with self._lock`
\* again without blocking.
Reentrant(owner, t) == owner = t

\* The step res of a get_access_token() or get_fyers_client() call entered
\* refresh_token() or generate_token(), and with it their `with self._lock`.
Nested(rec, res) ==
    rec.op \in {"gat", "client"} /\ Len(res.rec.trace) > Len(rec.trace)

LockFree_NoLock == TRUE

\* `with self._lock`: the lock can be taken by a thread that does not hold it.
LockFree == lock = 0

\* A thread calls one of the manager's public methods.  The lowest free
\* thread makes the call; the records of completed calls are kept only while
\* a call that overlapped them is still running.
Invoke(t, o) ==
    /\ th[t].pc \in {"idle", "done"}
    /\ \A u \in Threads : u < t => th[u].pc \in InFlight
    /\ calls < MaxCalls
    /\ calls' = calls + 1
    /\ LET others == {u \in Threads : u # t /\ th[u].pc \in InFlight}
       IN th' = [u \in Threads |->
                   IF u = t
                   THEN [IdleThread EXCEPT
                           !.op = o, !.pc = "wait",
                           !.invokedExpired = IsTokenExpired(tokens, now, tz),
                           !.conc = others]
                   ELSE IF u \in others
                   THEN [th[u] EXCEPT !.conc = @ \cup {t}]
                   ELSE IF others = {} THEN IdleThread
                   ELSE th[u]]
    /\ UNCHANGED <<tokens, fyers, localFile, remoteBlob, env, tz, now, lock>>

\* The thread enters `with self._lock` and runs to its first provider call.
Acquire(t, initFail) ==
    /\ th[t].pc = "wait"
    /\ LockFree
    /\ LET rec == [th[t] EXCEPT
                     !.lockExpired = IsTokenExpired(tokens, now, tz)]
           res == CASE rec.op = "gat" -> GetAccessToken(Mgr, rec, initFail)
                    [] rec.op = "refresh" -> BeginRefresh(Mgr, rec, initFail)
                    [] rec.op = "generate" -> BeginGenerate(Mgr, rec)
                    [] OTHER -> GetFyersClient(Mgr, rec, initFail)
       IN /\ Nested(rec, res) => Reentrant(t, t)
          /\ Apply(t, res)
    /\ UNCHANGED <<env, tz, now, calls>>

\* The provider answers the refresh exchange.
RefreshResponse(t, resp, sv, initFail) ==
    /\ th[t].pc = "refresh_call"
    /\ LET res == AfterRefresh(RefreshApply(Mgr, env, now, resp, sv, initFail),
                               [th[t] EXCEPT !.answer = resp.kind], initFail)
       IN /\ Nested(th[t], res) => Reentrant(lock, t)
          /\ Apply(t, res)
    /\ UNCHANGED <<env, tz, now, calls>>

\* The provider answers the authorization-code exchange.
GenerateResponse(t, resp, sv, initFail) ==
    /\ th[t].pc = "gen_call"
    /\ LET r == GenerateApply(Mgr, env, now, tz, resp, sv, initFail)
       IN Apply(t, Finish(r.m, [th[t] EXCEPT !.answer = resp.kind], r.ret,
                          NoClient, r.exc))
    /\ UNCHANGED <<env, tz, now, calls>>

\* The provider answers an exchange.  An ok answer is followed by the first
\* assignment to the record, self._tokens["access_token"] = ..., alone: the
\* other fields are written by the statements after it.
ExchangeAnswer(t, resp) ==
    /\ th[t].pc \in {"refresh_call", "gen_call"}
    /\ IF resp.kind = "ok"
       THEN /\ tokens' = [tokens EXCEPT !.access_token = resp.access_token]
            /\ th' = [th EXCEPT ![t].pending = resp,
                                ![t].pc = IF th[t].pc = "refresh_call"
                                          THEN "refresh_store"
                                          ELSE "gen_store"]
            /\ UNCHANGED <<fyers, localFile, remoteBlob, env, tz, now, lock,
                           calls>>
       ELSE IF th[t].pc = "refresh_call"
       THEN RefreshResponse(t, resp, "ok", FALSE)
       ELSE GenerateResponse(t, resp, "ok", FALSE)

\* The rest of the update after an ok answer: the remaining fields, the
\* save, the new client, and the return to the caller.
ExchangeStore(t, sv, initFail) ==
    /\ th[t].pc \in {"refresh_store", "gen_store"}
    /\ IF th[t].pc = "refresh_store"
       THEN LET res == AfterRefresh(RefreshApply(Mgr, env, now, th[t].pending,
                                                 sv, initFail),
                                    [th[t] EXCEPT !.answer = "ok"], initFail)
            IN /\ Nested(th[t], res) => Reentrant(lock, t)
               /\ Apply(t, res)
       ELSE LET r == GenerateApply(Mgr, env, now, tz, th[t].pending, sv,
                                   initFail)
            IN Apply(t, Finish(r.m, [th[t] EXCEPT !.answer = "ok"], r.ret,
                               NoClient, r.exc))
    /\ UNCHANGED <<env, tz, now, calls>>

\* Time passes.  One step of the clock is far longer than a call: calls that
\* overlap read the same clock, and the clock stops after the last call.
Tick ==
    /\ \A t \in Threads : th[t].pc \notin InFlight
    /\ calls < MaxCalls
    /\ now < StartTime + MaxTicks * TickSeconds
    /\ now' = now + TickSeconds
    /\ UNCHANGED <<tokens, fyers, localFile, remoteBlob, env, tz, lock, th,
                   calls>>

\* TokenManager.__init__: the record is loaded from the token file.
TMInit ==
    /\ \E r \in InitialRecords :
         /\ tokens = r
         /\ localFile = IF r = EmptyTokens THEN NoFile ELSE File(r)
         /\ remoteBlob = IF r = EmptyTokens THEN NoFile ELSE File(r)
    /\ fyers = NoClient
    /\ env \in EnvConfigs
    /\ tz \in TzOffsets
    /\ now = StartTime
    /\ lock = 0
    /\ th = [t \in Threads |-> IdleThread]
    /\ calls = 0


\* ------------------------------------------------------ get_token_manager
Callers == 1..NCallers

\* _token_manager_instance is None.
NoInstance == 0

\* A caller that is not inside get_token_manager().
IdleCaller == [pc |-> "idle", ret |-> NoInstance, exc |-> NoneV,
               sawNone |-> FALSE]

\* The module as imported: no instance, the lock free, nobody calling.
\* ctor counts the TokenManager() constructor runs begun, built those that
\* returned an object and raised those that raised; returned is every
\* instance handed to a caller.
NoSingleton ==
    [instance |-> NoInstance, lock |-> 0, ctor |-> 0, built |-> 0,
     raised |-> 0, calls |-> 0, returned |-> {},
     callers |-> [c \in Callers |-> IdleCaller]]

SecondCheck_Skipped(instance) == TRUE

\* `if _token_manager_instance is None:` inside `with _token_manager_lock`.
SecondCheck(instance) == instance = NoInstance

\* A thread calls get_token_manager().
GtmCall(c) ==
    /\ gtm.callers[c].pc \in {"idle", "done"}
    /\ gtm.calls < MaxSingletonCalls
    /\ gtm' = [gtm EXCEPT !.calls = @ + 1,
                          !.callers[c] = [IdleCaller EXCEPT !.pc = "check"]]

\* The first `if _token_manager_instance is None:`, read without the lock.
GtmFirstCheck(c) ==
    /\ gtm.callers[c].pc = "check"
    /\ gtm' = IF gtm.instance = NoInstance
              THEN [gtm EXCEPT !.callers[c].pc = "lock",
                               !.callers[c].sawNone = TRUE]
              ELSE [gtm EXCEPT !.callers[c].pc = "return"]

\* `with _token_manager_lock:` is entered and the instance is read again;
\* the constructor is started when it is still None.
GtmLock(c) ==
    /\ gtm.callers[c].pc = "lock"
    /\ gtm.lock = 0
    /\ gtm' = IF SecondCheck(gtm.instance)
              THEN [gtm EXCEPT !.lock = c, !.ctor = @ + 1,
                               !.callers[c].pc = "construct"]
              ELSE [gtm EXCEPT !.callers[c].pc = "return"]

\* TokenManager() finishes: it returns the object, which is assigned to
\* _token_manager_instance, or it raises (load_env_variables() raises when a
\* required variable is missing) and the exception leaves the with block.
GtmConstruct(c, raises) ==
    /\ gtm.callers[c].pc = "construct"
    /\ gtm' = IF raises
              THEN [gtm EXCEPT !.lock = 0, !.raised = @ + 1,
                               !.callers[c].pc = "done",
                               !.callers[c].exc = "EnvironmentError"]
              ELSE [gtm EXCEPT !.lock = 0, !.built = @ + 1,
                               !.instance = gtm.ctor,
                               !.callers[c].pc = "return"]

\* `return _token_manager_instance`
GtmReturn(c) ==
    /\ gtm.callers[c].pc = "return"
    /\ gtm' = [gtm EXCEPT !.callers[c].pc = "done",
                          !.callers[c].ret = gtm.instance,
                          !.returned = @ \cup {gtm.instance}]


\* --------------------------------------------- fyers_api: retry and wrappers
\* base ** e for e >= 0.
RECURSIVE Pow(_, _)
Pow(base, e) == IF e <= 0 THEN 1 ELSE base * Pow(base, e - 1)

WaitTime_Linear(delay, backoff, attempt) == delay * attempt

\* _retry_api_call: wait_time = delay * (backoff ** (attempt - 1))
WaitTime(delay, backoff, attempt) == delay * Pow(backoff, attempt - 1)

\* The ways of entering fyers_api: _retry_api_call itself, or a wrapper.
ApiKinds == {"direct", "get_ltp", "has_short_position", "place_order"}

\* What one invocation of func does: raise, or return a brokerage response
\* (s == "ok", code == 401, or another non-ok response).
CallOutcomes == {"raise", "ok", "unauthorized", "notok"}

Delays == {INITIAL_DELAY, INITIAL_DELAY + 1}

Backoffs == {1, BACKOFF_FACTOR, BACKOFF_FACTOR + 1}

ApiIdle ==
    [kind |-> "none", pc |-> "idle", retries |-> 0, delay |-> 0, backoff |-> 0,
     phase |-> 0, attempt |-> 0, inv1 |-> 0, inv2 |-> 0, fails |-> 0,
     sleeps |-> <<>>, entered |-> 0, nRefresh |-> 0, nClient |-> 0,
     innerRefresh |-> 0, refreshRaised |-> FALSE, bound |-> TRUE,
     result |-> "none", err |-> 0]

\* The value a wrapper returns from its `except Exception` handler.
ErrorValue(kind) == IF kind = "has_short_position" THEN "False" ELSE "error_dict"

\* The value a wrapper computes from the final response r.
WrapperResult(kind, r) ==
    CASE kind = "get_ltp" -> IF r = "ok" THEN "price" ELSE "None"
      [] kind = "has_short_position" -> IF r = "ok" THEN "bool" ELSE "False"
      [] OTHER -> r

RecoverOn401_Always(phase, r) == r = "unauthorized"

\* The wrappers' `if response.get("code") == 401:` sits after the first
\* _retry_api_call only.
RecoverOn401(phase, r) == phase = 1 /\ r = "unauthorized"

\* range(1, retries + 1) is empty: _retry_api_call returns None, and a
\* wrapper's response.get raises into its handler.
EmptyLoop(a) ==
    IF a.kind = "direct"
    THEN [a EXCEPT !.pc = "done", !.result = "None"]
    ELSE [a EXCEPT !.pc = "done", !.result = ErrorValue(a.kind)]

\* _retry_api_call is entered for phase ph.
EnterRetry(a, ph) ==
    LET a1 == [a EXCEPT !.phase = ph, !.attempt = 1]
    IN IF a.retries < 1 THEN EmptyLoop(a1) ELSE [a1 EXCEPT !.pc = "call"]

\* A caller enters _retry_api_call or one of the wrappers.
ApiInvoke(kind, n, d, b) ==
    /\ api.pc = "idle"
    /\ kind # "direct" => d = INITIAL_DELAY /\ b = BACKOFF_FACTOR
    /\ api' = EnterRetry([ApiIdle EXCEPT !.kind = kind, !.retries = n,
                                          !.delay = d, !.backoff = b], 1)
    /\ UNCHANGED tmVars

\* func() is invoked once.  On a client that is None the attribute lookup
\* raises before the brokerage is reached.
ApiCall(outcome) ==
    /\ api.pc = "call"
    /\ ~api.bound => outcome = "raise"
    /\ LET a == IF api.phase = 1 THEN [api EXCEPT !.inv1 = @ + 1]
                ELSE [api EXCEPT !.inv2 = @ + 1]
       IN api' =
            IF outcome = "raise"
            THEN IF a.attempt < a.retries
                 THEN [a EXCEPT !.pc = "sleep", !.fails = @ + 1,
                                !.sleeps = Append(@, WaitTime(a.delay, a.backoff,
                                                              a.attempt))]
                 ELSE IF a.kind = "direct"
                 THEN [a EXCEPT !.pc = "done", !.fails = @ + 1,
                                !.result = "raised", !.err = a.attempt]
                 ELSE [a EXCEPT !.pc = "done", !.fails = @ + 1,
                                !.result = ErrorValue(a.kind)]
            ELSE IF a.kind = "direct"
            THEN [a EXCEPT !.pc = "done", !.result = outcome]
            ELSE IF RecoverOn401(a.phase, outcome)
            THEN [a EXCEPT !.pc = "recover", !.entered = @ + 1]
            ELSE [a EXCEPT !.pc = "done",
                           !.result = WrapperResult(a.kind, outcome)]
    /\ UNCHANGED tmVars

\* await asyncio.sleep(wait_time), then the next attempt.
ApiSleep ==
    /\ api.pc = "sleep"
    /\ api' = [api EXCEPT !.pc = "call", !.attempt = @ + 1]
    /\ UNCHANGED tmVars

\* get_token_manager().refresh_token()
ApiRefresh ==
    /\ api.pc = "recover"
    /\ api' = [api EXCEPT !.pc = "refreshing", !.nRefresh = @ + 1]
    /\ Invoke(1, "refresh")

\* refresh_token() raised: the wrapper's handler returns its error value.
\* Otherwise fyersModelInstance = get_token_manager().get_fyers_client().
ApiAfterRefresh ==
    /\ api.pc = "refreshing"
    /\ Done(1)
    /\ IF th[1].exc # NoneV
       THEN /\ api' = [api EXCEPT !.pc = "done", !.refreshRaised = TRUE,
                                  !.result = ErrorValue(api.kind)]
            /\ UNCHANGED tmVars
       ELSE /\ api' = [api EXCEPT !.pc = "rebuilding", !.nClient = @ + 1]
            /\ Invoke(1, "client")

\* get_fyers_client() returned or raised; the second _retry_api_call runs on
\* what it returned.
ApiAfterClient ==
    /\ api.pc = "rebuilding"
    /\ Done(1)
    /\ LET a == [api EXCEPT !.innerRefresh = Len(th[1].trace)]
       IN api' = IF th[1].exc # NoneV
                 THEN [a EXCEPT !.pc = "done", !.result = ErrorValue(a.kind)]
                 ELSE EnterRetry([a EXCEPT !.bound = th[1].client.bound], 2)
    /\ UNCHANGED tmVars

\* ------------------------------------------- TokenManager: load and save
\* What _load_tokens meets: nothing, an unreadable local file, a failing
\* bucket read, or a failing write of the local cache.
LoadOutcomes == {"ok", "local_fail", "remote_fail", "cache_fail"}

LoadTokens_RemoteFirst(local, remote, e, ld) ==
    IF e.bucket /\ remote.present /\ ld # "remote_fail"
    THEN [rec |-> remote.rec,
          local |-> IF ld = "cache_fail" THEN local ELSE remote,
          asked |-> TRUE]
    ELSE IF local.present /\ ld # "local_fail"
    THEN [rec |-> local.rec, local |-> local, asked |-> e.bucket]
    ELSE [rec |-> EmptyTokens, local |-> local, asked |-> e.bucket]

\* TokenManager._load_tokens: the record returned, the local file left, and
\* whether the remote store was asked for the blob.
LoadTokens(local, remote, e, ld) ==
    IF local.present /\ ld # "local_fail"
    THEN [rec |-> local.rec, local |-> local, asked |-> FALSE]
    ELSE IF e.bucket /\ remote.present /\ ld # "remote_fail"
    THEN [rec |-> remote.rec,
          local |-> IF ld = "cache_fail" THEN local ELSE remote,
          asked |-> TRUE]
    ELSE [rec |-> EmptyTokens, local |-> local, asked |-> e.bucket]

\* self._tokens = self._load_tokens() or {}
PersistLoad(ld) ==
    /\ calls < MaxCalls
    /\ calls' = calls + 1
    /\ LET r == LoadTokens(localFile, remoteBlob, env, ld)
       IN /\ tokens' = r.rec
          /\ localFile' = r.local
    /\ th' = [th EXCEPT ![1] =
                [IdleThread EXCEPT
                   !.op = "load", !.pc = "done", !.io = ld,
                   !.trace = IF LoadTokens(localFile, remoteBlob, env, ld).asked
                             THEN <<"gcs">> ELSE <<>>]]
    /\ UNCHANGED <<fyers, remoteBlob, env, tz, now, lock>>

\* self._save_tokens()
PersistSave(sv) ==
    /\ calls < MaxCalls
    /\ calls' = calls + 1
    /\ LET m == SaveTokens(Mgr, env, sv)
       IN /\ localFile' = m.local
          /\ remoteBlob' = m.remote
    /\ th' = [th EXCEPT ![1] = [IdleThread EXCEPT !.op = "save",
                                                  !.pc = "done", !.io = sv]]
    /\ UNCHANGED <<tokens, fyers, env, tz, now, lock>>

\* ------------------------------------------------- idempotency: the store
IdempotencyKeys == {"k1", "k2"}

\* What set() is given to remember: a response body and its status code.
StoredResponses ==
    {[body |-> "ra", status |-> 200], [body |-> "rb", status |-> 500]}

\* The TTLs a store is constructed with in the store's own specification.
StoreTtls == {0, 1, 2}

NoResponse == [body |-> "", status |-> 0]

NoCall == [op |-> "none", key |-> NoneV, hit |-> FALSE,
           resp |-> NoResponse, at |-> 0]

NeverSet == [isSet |-> FALSE, resp |-> NoResponse, at |-> 0]

\* IdempotencyStore.__init__: _ttl and an empty _data.  `last` and `sets`
\* remember the latest call and, per key, the latest set() call.
NewStore(l) ==
    [ttl |-> l, data |-> {}, last |-> NoCall,
     sets |-> [k \in IdempotencyKeys |-> NeverSet]]

\* IdempotencyStore._prune_locked at time t
PruneLocked(data, t) == {e \in data : ~(e.expires_at < t)}

SetDisabled_Never(l) == FALSE

\* IdempotencyStore.set: `if self._ttl <= 0: return`
SetDisabled(l) == l <= 0

GetExpired_Never(e, t) == FALSE

\* IdempotencyStore.get: `if time.time() > expires_at`
GetExpired(e, t) == t > e.expires_at

\* IdempotencyStore.set(key, response_dict, status_code); time.time() is read
\* once in _prune_locked and once more for expires_at.
StoreSet(k, r, d) ==
    /\ now + d <= MaxStoreTime
    /\ now' = now + d
    /\ LET log == [idem EXCEPT
                     !.last = [op |-> "set", key |-> k, hit |-> FALSE,
                               resp |-> r, at |-> now + d],
                     !.sets[k] = [isSet |-> TRUE, resp |-> r, at |-> now + d]]
       IN idem' =
            IF SetDisabled(idem.ttl) THEN log
            ELSE [log EXCEPT !.data =
                    {e \in PruneLocked(idem.data, now) : e.key # k}
                    \cup {[key |-> k, resp |-> r,
                           expires_at |-> now + d + idem.ttl]}]

\* IdempotencyStore.get(key); time.time() is read once in _prune_locked and
\* once more for the expiry test.
StoreGet(k, d) ==
    /\ now + d <= MaxStoreTime
    /\ now' = now + d
    /\ LET pruned == PruneLocked(idem.data, now)
           found == {e \in pruned : e.key = k}
           miss == [op |-> "get", key |-> k, hit |-> FALSE,
                    resp |-> NoResponse, at |-> now + d]
       IN idem' =
            IF found = {}
            THEN [idem EXCEPT !.data = pruned, !.last = miss]
            ELSE LET e == CHOOSE x \in found : TRUE
                 IN IF GetExpired(e, now + d)
                    THEN [idem EXCEPT !.data = pruned \ {e}, !.last = miss]
                    ELSE [idem EXCEPT !.data = pruned,
                                      !.last = [miss EXCEPT !.hit = TRUE,
                                                            !.resp = e.resp]]

\* time.time() advances between calls.
StoreTick ==
    /\ now < MaxStoreTime
    /\ now' = now + 1
    /\ UNCHANGED idem

\* ------------------------------------------------------- routes: webhook
Requests == 1..NRequests

\* The quantities a request may carry (0: no qty field) and the lot sizes
\* _get_default_qty may find for the resolved symbol.
Quantities == {0, 1, 75}

LotSizes == {1, 75}

\* WEBHOOK_MAX_QTY in the environment (0: not set).
WebhookMaxQtys == {0, 50}

\* The stop-loss/take-profit a caller may supply (0: the field is absent).
CallerStops == {[sl |-> 0, tp |-> 0], [sl |-> 5, tp |-> 8]}

\* What get_ltp may return: a price, None, or its error dict.
LtpResults ==
    {[kind |-> "None", price |-> 0], [kind |-> "error_dict", price |-> 0]}
    \cup {[kind |-> "price", price |-> x] : x \in {4, 100}}

\* A request: its idempotency key (header or body field, NoneV when absent),
\* whether its JSON body is empty, whether symbol, action, strikeprice,
\* optionType and expiry are all present, its token, action, qty and sl/tp.
AllPayloads ==
    [key : IdempotencyKeys \cup {NoneV},
     json : {"empty", "object"},
     complete : BOOLEAN,
     token : {"secret", "wrong", "absent"},
     action : {"BUY", "SELL", "HOLD"},
     qty : Quantities,
     stops : CallerStops]

Form_NoTokenCheck(p) ==
    CASE p.json = "empty" -> "empty"
      [] ~p.complete \/ p.token = "absent" -> "missing"
      [] OTHER -> "valid"

\* The shape of the body as the handler's first checks see it.
Form(p) ==
    CASE p.json = "empty" -> "empty"
      [] ~p.complete \/ p.token = "absent" -> "missing"
      [] p.token # "secret" -> "badtoken"
      [] OTHER -> "valid"

\* One payload for each body the handler can tell apart: an empty body has
\* no fields, and a body with missing fields is one SELL request.
Payloads ==
    {p \in AllPayloads :
        /\ p.json = "empty" =>
              /\ ~p.complete /\ p.token = "absent"
              /\ p.key = NoneV
        /\ Form(p) # "valid" =>
              /\ p.action = "SELL" /\ p.qty = 1
              /\ p.stops.sl = 0}

\* The payloads of requests that are replayed or overlap: BUY or SELL with a
\* quantity and no sl/tp of their own.
ReplayPayloads ==
    {p \in Payloads :
        /\ p.action # "HOLD" /\ p.qty = 1 /\ p.stops.sl = 0
        /\ Form(p) = "missing" => p.complete}

\* The payloads of a request handled alone.
RequestPayloads == {p \in Payloads : p.key = NoneV}

NoBody == [msg |-> "", order |-> 0]

NoOrder == [side |-> 0, qty |-> 0, sl |-> 0, tp |-> 0]

IdleRequest ==
    [pc |-> "idle", payload |-> CHOOSE p \in Payloads : TRUE, status |-> 0,
     body |-> NoBody, external |-> 0, placed |-> 0, after |-> {},
     notes |-> 0, maxQty |-> 0, resolved |-> "unasked", clients |-> 0,
     short |-> "unasked",
     ltp |-> "unasked", sl |-> 0, tp |-> 0, sent |-> NoOrder,
     attempts |-> 0]

\* return jsonify(...), status
Respond(rec, status, msg, order) ==
    [rec EXCEPT !.pc = "done", !.status = status,
                !.body = [msg |-> msg, order |-> order]]

whVars == <<wh, orders, idem>>

\* request.get_json() and the checks on the body and the secret token.
Receive(r, p, mq) ==
    /\ wh[r].pc = "idle"
    /\ \A u \in Requests : u < r => wh[u].pc # "idle"
    /\ LET rec == [wh[r] EXCEPT !.payload = p, !.maxQty = mq,
                     !.sl = p.stops.sl, !.tp = p.stops.tp,
                     !.after = {u \in Requests : wh[u].pc = "done"}]
       IN wh' = [wh EXCEPT ![r] =
            CASE Form(p) = "empty" ->
                    Respond(rec, 400, "Empty or invalid JSON", 0)
              [] Form(p) = "missing" ->
                    Respond(rec, 400, "Missing required fields", 0)
              [] Form(p) = "badtoken" -> Respond(rec, 401, "Unauthorized", 0)
              [] OTHER -> [rec EXCEPT !.pc = "resolve"]]
    /\ UNCHANGED <<orders, idem>>

\* A request that may be replayed or overlap another.
WhReceive(r, p) == p \in ReplayPayloads /\ Receive(r, p, 0)

ResolveMiss_Never(found) == FALSE

\* `if not fyers_symbol`
ResolveMiss(found) == ~found

\* get_symbol_from_csv(...)
WhResolve(r, found) ==
    /\ wh[r].pc = "resolve"
    /\ LET rec == [wh[r] EXCEPT !.external = @ + 1,
                     !.resolved = IF found THEN "hit" ELSE "miss"]
       IN wh' = [wh EXCEPT ![r] =
            IF ResolveMiss(found)
            THEN Respond(rec, 403, "Could not resolve symbol", 0)
            ELSE [rec EXCEPT !.pc = "fyers"]]
    /\ UNCHANGED <<orders, idem>>

\* fyers = get_fyers(): a client, a falsy value, or an exception that the
\* inner handler turns into ltp = sl = tp = None.
WhGetFyers(r, out) ==
    /\ wh[r].pc = "fyers"
    /\ LET rec == [wh[r] EXCEPT !.clients = @ + 1]
       IN wh' = [wh EXCEPT ![r] =
            CASE out = "raise" ->
                    [rec EXCEPT !.pc = "order", !.sl = 0, !.tp = 0]
              [] out = "None" ->
                    Respond(rec, 500, "Failed to initialize Fyers client", 0)
              [] OTHER -> IF rec.payload.action = "BUY"
                          THEN [rec EXCEPT !.pc = "positions"]
                          ELSE [rec EXCEPT !.pc = "ltp"]]
    /\ UNCHANGED <<orders, idem>>

\* action.upper() == "BUY" and not await has_short_position(...); the
\* wrapper answers False for no short position, a non-ok response and a
\* failed call alike.
WhPositions(r, short) ==
    /\ wh[r].pc = "positions"
    /\ LET rec == [wh[r] EXCEPT !.external = @ + 1,
                     !.short = IF short THEN "short" ELSE "none"]
       IN wh' = [wh EXCEPT ![r] =
            IF short THEN [rec EXCEPT !.pc = "ltp"]
            ELSE Respond(rec, 400, "No short position to cover", 0)]
    /\ UNCHANGED <<orders, idem>>

\* Python's round() of x / 100: ties go to the even neighbour.
RoundHundredths(x) ==
    LET q == x \div 100
        rem == x % 100
    IN IF rem > 50 \/ (rem = 50 /\ q % 2 = 1) THEN q + 1 ELSE q

\* `if isinstance(ltp, (int, float))`: sl = round(ltp * 0.15) and
\* tp = round(ltp * 0.25); otherwise sl = tp = None.
StopsFromLtp(rec, l) ==
    IF l.kind # "price"
    THEN [rec EXCEPT !.sl = 0, !.tp = 0]
    ELSE [rec EXCEPT !.sl = RoundHundredths(l.price * 15),
                     !.tp = RoundHundredths(l.price * 25)]

\* ltp = await get_ltp(...)
WhLtp(r, l) ==
    /\ wh[r].pc = "ltp"
    /\ wh' = [wh EXCEPT ![r] =
            StopsFromLtp([@ EXCEPT !.pc = "order", !.external = @ + 1,
                                   !.ltp = l.kind], l)]
    /\ UNCHANGED <<orders, idem>>

\* _validate_order_params and the order_data of place_order: qty falls back
\* to the lot size, sl and tp to 10.0 and 20.0, and every action other than
\* BUY is sent as a sell.
OrderData(rec, lot) ==
    [side |-> IF rec.payload.action = "BUY" THEN 1 ELSE -1,
     qty |-> IF rec.payload.qty = 0 THEN lot ELSE rec.payload.qty,
     sl |-> IF rec.sl > 0 THEN rec.sl ELSE 10,
     tp |-> IF rec.tp > 0 THEN rec.tp ELSE 20]

OrderResponse_Always200(rec, out, n) ==
    Respond(rec, 200, "order placed", n)

\* The terminal response once place_order has returned `out`.
OrderResponse(rec, out, n) ==
    IF out = "ok"
    THEN Respond(rec, 200, "order placed", n)
    ELSE Respond([rec EXCEPT !.notes = @ + 1], 500, "Fyers order failed", 0)

\* get_fyers() again, then place_order(...) and the terminal response.  The
\* wrapper is one step here; its brokerage invocations are counted by
\* WhOrderBegin and WhOrderEnd.
WhOrder(r, out, lot) ==
    /\ wh[r].pc = "order"
    /\ IF out = "fyers_raise"
       THEN /\ wh' = [wh EXCEPT ![r] =
                    Respond([@ EXCEPT !.notes = @ + 1, !.clients = @ + 1], 500,
                            "Exception while placing order", 0)]
            /\ UNCHANGED orders
       ELSE /\ orders' = orders + 1
            /\ LET rec == [wh[r] EXCEPT !.external = @ + 1, !.placed = @ + 1,
                             !.clients = @ + 1,
                             !.sent = OrderData(wh[r], lot)]
               IN wh' = [wh EXCEPT ![r] = OrderResponse(rec, out, orders + 1)]
    /\ UNCHANGED idem

\* A request handled alone: any payload, any WEBHOOK_MAX_QTY.
WhReceiveAlone(p, mq) ==
    /\ p \in RequestPayloads
    /\ Receive(1, p, mq)

\* get_fyers() again, then place_order(...) enters its first
\* _retry_api_call with the default retries, delay and backoff.
WhOrderBegin(r, fy, lot) ==
    /\ wh[r].pc = "order"
    /\ IF fy = "raise"
       THEN /\ wh' = [wh EXCEPT ![r] =
                    Respond([@ EXCEPT !.notes = @ + 1, !.clients = @ + 1], 500,
                            "Exception while placing order", 0)]
            /\ UNCHANGED <<orders, api, tmVars>>
       ELSE /\ orders' = orders + 1
            /\ wh' = [wh EXCEPT ![r] =
                    [@ EXCEPT !.pc = "placing", !.external = @ + 1,
                              !.placed = @ + 1, !.clients = @ + 1,
                              !.sent = OrderData(wh[r], lot)]]
            /\ ApiInvoke("place_order", DEFAULT_RETRIES, INITIAL_DELAY,
                         BACKOFF_FACTOR)
    /\ UNCHANGED <<idem, gtm, eval>>

\* place_order has returned: the terminal response.
WhOrderEnd(r) ==
    /\ wh[r].pc = "placing"
    /\ api.pc = "done"
    /\ wh' = [wh EXCEPT ![r] =
            OrderResponse([@ EXCEPT !.attempts = api.inv1 + api.inv2],
                          api.result, orders)]
    /\ UNCHANGED <<orders, idem, api, tmVars, gtm, eval>>

\* ---------------------------------------------------- get_idempotency_key
\* Text is a sequence of characters; Join gives the string it spells.
RECURSIVE Join(_)
Join(s) == IF s = <<>> THEN "" ELSE Head(s) \o Join(Tail(s))

RECURSIVE StripLeft(_)
StripLeft(s) ==
    IF s # <<>> /\ Head(s) = " " THEN StripLeft(Tail(s)) ELSE s

RECURSIVE StripRight(_)
StripRight(s) ==
    IF s # <<>> /\ s[Len(s)] = " "
    THEN StripRight(SubSeq(s, 1, Len(s) - 1))
    ELSE s

\* str.strip()
Strip(s) == StripLeft(StripRight(s))

\* The texts a header or a body field may carry.
RawTexts ==
    {<<>>, <<" ">>, <<"k", "1">>, <<" ", "k", "1", " ">>, <<" ", "k", "2">>}

\* A header or body field: missing, JSON null, or a text.
Missing == [kind |-> "missing", text |-> <<>>]
Null == [kind |-> "null", text |-> <<>>]
TextValue(s) == [kind |-> "text", text |-> s]

\* The requests get_idempotency_key is given: the Idempotency-Key header,
\* request.is_json and the body's idempotency_key field.
KeyRequests ==
    [header : {Missing} \cup {TextValue(s) : s \in RawTexts},
     is_json : BOOLEAN,
     field : {Missing, Null} \cup {TextValue(s) : s \in RawTexts}]

\* Python truthiness of a header or field value.
TruthyValue(v) == v.kind = "text" /\ v.text # <<>>

HeaderKey_Untrimmed(req) ==
    IF TruthyValue(req.header) THEN req.header.text ELSE <<>>

\* `if request.headers.get("Idempotency-Key"): key = ....strip()`
HeaderKey(req) ==
    IF TruthyValue(req.header) THEN Strip(req.header.text) ELSE <<>>

\* get_idempotency_key(request); NoneV is None.
GetIdempotencyKey(req) ==
    LET key1 == HeaderKey(req)
        raw == req.field
        key2 == IF key1 = <<>> /\ req.is_json /\ raw.kind \notin {"missing", "null"}
                THEN IF TruthyValue(raw) THEN Strip(raw.text) ELSE <<>>
                ELSE key1
    IN IF key2 # <<>> THEN Join(key2) ELSE NoneV

NoEval == [pc |-> "idle", req |-> CHOOSE q \in KeyRequests : TRUE,
           key |-> NoneV]

\* The key of an arriving request is computed.
KeyEval(req) ==
    /\ eval.pc = "idle"
    /\ eval' = [pc |-> "done", req |-> req, key |-> GetIdempotencyKey(req)]

\* The webhook handles the JSON request whose key was computed.
WhReceiveKeyed(p) ==
    /\ eval.pc = "done"
    /\ eval.req.is_json
    /\ p \in ReplayPayloads
    /\ p.key = eval.key
    /\ p.json = "empty" => eval.req.field.kind = "missing"
    /\ Receive(1, p, 0)

\* ------------------------------------------------------ _is_token_expired
\* The records and clock readings _is_token_expired is evaluated on.
ExpiryTimes == {StartTime + k * TickSeconds : k \in 0..2}

ExpiryRecords ==
    [access_token : {NoneV, "", "t0"},
     refresh_token : {NoneV},
     issued_at : {NoDate},
     expires_at : {NoDate, BadDate} \cup {Naive(x) : x \in ExpiryTimes}
                  \cup {Aware(x) : x \in ExpiryTimes}]

NotEvaluated == [pc |-> "idle", expired |-> FALSE]

\* self._is_token_expired()
ExpiryCheck ==
    /\ eval.pc = "idle"
    /\ eval' = [pc |-> "done", expired |-> IsTokenExpired(tokens, now, tz)]

\* ------------------------------------------ fyers_api: order parameters
\* Python values an order parameter can take: None, a number, the empty
\* text, a text that reads as a number, a text that does not.
PyNone == [t |-> "none", v |-> 0]
Num(n) == [t |-> "num", v |-> n]
NumText(n) == [t |-> "text", v |-> n]
EmptyText == [t |-> "empty", v |-> 0]
BadText == [t |-> "bad", v |-> 0]

\* bool(x)
PyTruthy(x) ==
    CASE x.t = "none" -> FALSE
      [] x.t = "empty" -> FALSE
      [] x.t = "num" -> x.v # 0
      [] OTHER -> TRUE

\* float(x) and int(float(x)) succeed on numbers and on texts that read as
\* numbers
Floatable(x) == x.t \in {"num", "text"}

DEFAULT_SL == 10
DEFAULT_TP == 20
DEFAULT_QTY == 1
DEFAULT_PRODUCT_TYPE == "BO"

valid_product_types == {"INTRADAY", "CNC", "DELIVERY", "BO", "CO"}

ProductTypes == valid_product_types \cup {"MARGIN", "bo", "", NoneV}

\* The symbol master as _get_default_qty meets it: no row for the symbol
\* (also when the master could not be loaded), or the row's lot_size.
NoRow == [found |-> FALSE, lot_size |-> PyNone]
Row(lot) == [found |-> TRUE, lot_size |-> lot]

Masters ==
    {NoRow} \cup {Row(l) : l \in {PyNone, BadText, Num(1), Num(25), NumText(50)}}

\* _get_default_qty
GetDefaultQty(master) ==
    IF master.found
    THEN IF Floatable(master.lot_size) THEN master.lot_size.v ELSE DEFAULT_QTY
    ELSE DEFAULT_QTY

OrDefault_KeepsGiven(x, d) == IF PyTruthy(x) THEN x.v ELSE d

\* `float(sl) if sl and float(sl) > 0 else 10.0`
OrDefault(x, d) == IF PyTruthy(x) /\ x.v > 0 THEN x.v ELSE d

\* _validate_order_params: the tuple it returns.  A quantity that is given
\* is returned as it came.
ValidateOrderParams(master, qty, sl, tp, productType) ==
    [qty |-> IF PyTruthy(qty) THEN qty ELSE Num(GetDefaultQty(master)),
     sl |-> OrDefault(sl, DEFAULT_SL),
     tp |-> OrDefault(tp, DEFAULT_TP),
     productType |-> IF productType \notin valid_product_types
                     THEN DEFAULT_PRODUCT_TYPE ELSE productType]

GivenQuantities == {PyNone, Num(0), EmptyText, Num(5), Num(-1), NumText(5)}
Points == {PyNone, Num(0), Num(-5), Num(5), NumText(0), NumText(15), EmptyText}

NoParams ==
    [qty |-> PyNone, sl |-> 0, tp |-> 0, productType |-> NoneV]

ParamCalls ==
    [pc : {"idle"}, master : Masters, qty : GivenQuantities, sl : Points,
     tp : {PyNone, Num(-5), NumText(15)}, productType : ProductTypes,
     out : {NoParams}]

\* _validate_order_params(symbol, qty, sl, tp, productType)
ParamsValidate ==
    /\ eval.pc = "idle"
    /\ eval' = [eval EXCEPT
                  !.pc = "done",
                  !.out = ValidateOrderParams(eval.master, eval.qty, eval.sl,
                                              eval.tp, eval.productType)]

\* ------------------------------------------- notifications: the sink
\* What send_notification meets: NOTIFICATION_TOPIC and NOTIFICATION_URL set
\* or not, the Pub/Sub library importable or not, and whether
\* publisher.publish and requests.post raise.
Sinks ==
    [topic : BOOLEAN, url : BOOLEAN, pubsub : BOOLEAN,
     publishRaises : BOOLEAN, postRaises : BOOLEAN]

SendNotification_Unguarded(sink) ==
    LET publishes == sink.topic /\ sink.pubsub
        pubFails == publishes /\ sink.publishRaises
        posts == sink.url /\ ~pubFails
    IN [raised |-> pubFails \/ (posts /\ sink.postRaises),
        published |-> publishes /\ ~sink.publishRaises,
        posted |-> posts /\ ~sink.postRaises]

\* send_notification: each delivery runs inside its own try/except Exception.
SendNotification(sink) ==
    [raised |-> FALSE,
     published |-> sink.topic /\ sink.pubsub /\ ~sink.publishRaises,
     posted |-> sink.url /\ ~sink.postRaises]

\* The places that call send_notification: three in refresh_token and
\* three in webhook.
RefreshSites == {"refresh_missing", "refresh_notok", "refresh_error"}
WebhookSites == {"order_failed", "order_exception", "unhandled"}
NotifySites == RefreshSites \cup WebhookSites

\* The failure the site reports once send_notification has returned.
SiteFailure(site) ==
    IF site \in RefreshSites THEN "RefreshTokenError" ELSE "response_500"

NotifyCalls ==
    [pc : {"failing"}, site : NotifySites, sink : Sinks, sent : {0},
     raised : {FALSE}, outcome : {NoneV}]

\* send_notification(...) at the site.  The non-ok branch of refresh_token
\* raises inside the try, so its handler sends a second time.
NotifySend ==
    /\ eval.pc = "failing"
    /\ LET r == SendNotification(eval.sink)
       IN eval' = [eval EXCEPT
                     !.pc = "sent",
                     !.raised = r.raised,
                     !.sent = IF r.raised THEN 0
                              ELSE IF eval.site = "refresh_notok" THEN 2
                              ELSE 1]

\* The statement after send_notification: `raise RefreshTokenError(...)` or
\* `return jsonify(...), 500`; an exception out of send_notification would
\* take its place.
NotifySiteReturn ==
    /\ eval.pc = "sent"
    /\ eval' = [eval EXCEPT
                  !.pc = "done",
                  !.outcome = IF eval.raised THEN "SinkError"
                              ELSE SiteFailure(eval.site)]

\* ------------------------------------------------- monitor: MonitorThread
\* dt_time(15, 25), in minutes of the day.
EXIT_MINUTE == 925

\* The object a call of an `async def` returns when it is not awaited.
Coroutine == [t |-> "coroutine", v |-> 0]

\* `isinstance(ltp, (float, int))`
IsNumber(x) == x.t = "num"

\* `float(cell) if cell else None`, None on ValueError
CellOrNone(cell) ==
    IF PyTruthy(cell) /\ Floatable(cell) THEN Num(cell.v) ELSE PyNone

\* `float(self.trade[5]) if self.trade[5] else ltp`, ltp on ValueError
EntryOf(cell, ltp) ==
    IF PyTruthy(cell) /\ Floatable(cell) THEN cell.v ELSE ltp

\* Where app.monitor.get_ltp comes from: the module's own import of the
\* coroutine function app.fyers_api.get_ltp, called without await, or the
\* plain function the unit tests patch in.
LtpSources == {"get_ltp", "patched"}

PatchedSamples == {PyNone} \cup {Num(x) : x \in {180, 190, 191, 200, 209, 210, 220}}

\* What `ltp = get_ltp(self.fyers, self.symbol)` binds.
LtpSamples(source) ==
    IF source = "get_ltp" THEN {Coroutine} ELSE PatchedSamples

Closed(ltp, reason) == [status |-> "CLOSED", ltp |-> ltp, reason |-> reason]

\* The branch of one loop iteration on a numeric ltp: the reason it closes
\* the trade with, or None when it goes to sleep.
ExitReason(m, clock, ltp) ==
    LET sl == CellOrNone(m.sl)
        tp == CellOrNone(m.tp)
        entry == EntryOf(m.entry, ltp)
    IN IF clock >= EXIT_MINUTE THEN "TIMELY EXIT"
       ELSE IF m.action = "BUY" /\ sl # PyNone /\ ltp <= entry - sl.v THEN "SL"
       ELSE IF m.action = "BUY" /\ tp # PyNone /\ ltp >= entry + tp.v THEN "TP"
       ELSE IF m.action = "SELL" /\ sl # PyNone /\ ltp >= entry + sl.v THEN "SL"
       ELSE IF m.action = "SELL" /\ tp # PyNone /\ ltp <= entry - tp.v THEN "TP"
       ELSE NoneV

\* The trades a MonitorThread is started on: start_monitoring_service skips
\* rows whose entry, SL or TP cell is empty.
MonitorThreads ==
    [pc : {"loop"}, source : LtpSources, action : {"BUY", "SELL", "EXIT"},
     entry : {NumText(200), BadText}, sl : {NumText(10), BadText},
     tp : {NumText(20), BadText}, clock : {EXIT_MINUTE - 1},
     read : {EXIT_MINUTE - 1}, ltp : {PyNone}, reports : {<<>>}]

\* One iteration of `while True` in MonitorThread.run; `read` is its local
\* `now`.
MonitorIterate(v) ==
    /\ eval.pc = "loop"
    /\ v \in LtpSamples(eval.source)
    /\ LET m == [eval EXCEPT !.read = eval.clock, !.ltp = v]
       IN eval' =
            IF ~IsNumber(v) THEN m
            ELSE LET reason == ExitReason(m, m.read, v.v)
                 IN IF reason # NoneV
                    THEN [m EXCEPT !.pc = "ended",
                                   !.reports = Append(@, Closed(v.v, reason))]
                    ELSE [m EXCEPT !.pc = "sleeping"]

\* time.sleep(polling_interval) returns.
MonitorWake ==
    /\ eval.pc = "sleeping"
    /\ eval' = [eval EXCEPT !.pc = "loop"]

\* The wall clock moves on.
MonitorClock ==
    /\ eval.clock < EXIT_MINUTE + 1
    /\ eval' = [eval EXCEPT !.clock = @ + 1]

\* ------------------------------------------------------------ specifications
vars == <<tokens, fyers, localFile, remoteBlob, env, tz, now, lock, th, calls,
          api, wh, orders, idem, gtm, eval>>

WhInit ==
    /\ wh = [r \in Requests |-> IdleRequest]
    /\ orders = 0
    /\ idem = NewStore(DEFAULT_TTL_SECONDS)
    /\ gtm = NoSingleton
    /\ eval = NoEval

Init == TMInit /\ api = ApiIdle /\ WhInit

\* The inputs of one provider answer: the response, what _save_tokens meets
\* and whether the FyersModel constructor raises during this call.
Next ==
    \/ \E t \in Threads, o \in Ops : Invoke(t, o) /\ UNCHANGED <<api, whVars, gtm, eval>>
    \/ \E t \in Threads, initFail \in BOOLEAN :
         Acquire(t, initFail) /\ UNCHANGED <<api, whVars, gtm, eval>>
    \/ \E t \in Threads, resp \in ProviderResponses, sv \in SaveOutcomes,
          initFail \in BOOLEAN :
         RefreshResponse(t, resp, sv, initFail) /\ UNCHANGED <<api, whVars, gtm, eval>>
    \/ \E t \in Threads, resp \in ProviderResponses, sv \in SaveOutcomes,
          initFail \in BOOLEAN :
         GenerateResponse(t, resp, sv, initFail) /\ UNCHANGED <<api, whVars, gtm, eval>>
    \/ Tick /\ UNCHANGED <<api, whVars, gtm, eval>>

\* Threads calling the TokenManager.
Spec == Init /\ [][Next]_vars

\* A thread that can enter the lock does so, and the provider answers every
\* exchange (with a response or a transport error).
ThreadProgress(t) ==
    \/ \E initFail \in BOOLEAN :
         Acquire(t, initFail) /\ UNCHANGED <<api, whVars, gtm, eval>>
    \/ \E resp \in ProviderResponses, sv \in SaveOutcomes,
          initFail \in BOOLEAN :
         RefreshResponse(t, resp, sv, initFail)
         /\ UNCHANGED <<api, whVars, gtm, eval>>
    \/ \E resp \in ProviderResponses, sv \in SaveOutcomes,
          initFail \in BOOLEAN :
         GenerateResponse(t, resp, sv, initFail)
         /\ UNCHANGED <<api, whVars, gtm, eval>>

\* Threads calling the TokenManager, each scheduled while it can run.
SpecProgress ==
    Init /\ [][Next]_vars /\ \A t \in Threads : WF_vars(ThreadProgress(t))

ExchangeNext ==
    \/ \E t \in Threads, o \in Ops :
         Invoke(t, o) /\ UNCHANGED <<api, whVars, gtm, eval>>
    \/ \E t \in Threads, initFail \in BOOLEAN :
         Acquire(t, initFail) /\ UNCHANGED <<api, whVars, gtm, eval>>
    \/ \E t \in Threads, resp \in ProviderResponses :
         ExchangeAnswer(t, resp) /\ UNCHANGED <<api, whVars, gtm, eval>>
    \/ \E t \in Threads, sv \in SaveOutcomes, initFail \in BOOLEAN :
         ExchangeStore(t, sv, initFail) /\ UNCHANGED <<api, whVars, gtm, eval>>
    \/ Tick /\ UNCHANGED <<api, whVars, gtm, eval>>

\* Threads calling the TokenManager, the record's update seen field by field.
SpecExchange == Init /\ [][ExchangeNext]_vars

ApiNext ==
    \/ \E kind \in ApiKinds, n \in 0..MaxRetries, d \in Delays,
          b \in Backoffs :
         ApiInvoke(kind, n, d, b) /\ UNCHANGED <<whVars, gtm, eval>>
    \/ \E outcome \in CallOutcomes : ApiCall(outcome) /\ UNCHANGED <<whVars, gtm, eval>>
    \/ ApiSleep /\ UNCHANGED <<whVars, gtm, eval>>
    \/ ApiRefresh /\ UNCHANGED <<whVars, gtm, eval>>
    \/ ApiAfterRefresh /\ UNCHANGED <<whVars, gtm, eval>>
    \/ ApiAfterClient /\ UNCHANGED <<whVars, gtm, eval>>
    \/ \E initFail \in BOOLEAN :
         Acquire(1, initFail) /\ UNCHANGED <<api, whVars, gtm, eval>>
    \/ \E resp \in ProviderResponses, sv \in SaveOutcomes,
          initFail \in BOOLEAN :
         RefreshResponse(1, resp, sv, initFail) /\ UNCHANGED <<api, whVars, gtm, eval>>
    \/ api.pc = "idle" /\ Tick /\ UNCHANGED <<api, whVars, gtm, eval>>

\* One _retry_api_call or wrapper invocation, with the manager behind it.
SpecApi == Init /\ [][ApiNext]_vars

\* The webhook is served by app.auth, not by the TokenManager: the manager
\* stays as constructed while requests are handled.
WebhookInit ==
    /\ tokens = EmptyTokens /\ fyers = NoClient
    /\ localFile = NoFile /\ remoteBlob = NoFile
    /\ env = (CHOOSE e \in EnvConfigs : e.authCode /\ e.pin /\ e.bucket)
    /\ tz = 0 /\ now = StartTime
    /\ lock = 0 /\ calls = 0
    /\ th = [t \in Threads |-> IdleThread]
    /\ api = ApiIdle
    /\ wh = [r \in Requests |-> IdleRequest]
    /\ orders = 0
    /\ idem \in {NewStore(l) : l \in {0, DEFAULT_TTL_SECONDS}}
    /\ gtm = NoSingleton
    /\ eval = NoEval

WebhookNext ==
    \/ \E r \in Requests, p \in Payloads :
         WhReceive(r, p) /\ UNCHANGED <<tmVars, api, gtm, eval>>
    \/ \E r \in Requests, found \in BOOLEAN :
         WhResolve(r, found) /\ UNCHANGED <<tmVars, api, gtm, eval>>
    \/ \E r \in Requests, out \in {"client", "None", "raise"} :
         WhGetFyers(r, out) /\ UNCHANGED <<tmVars, api, gtm, eval>>
    \/ \E r \in Requests, short \in BOOLEAN :
         WhPositions(r, short) /\ UNCHANGED <<tmVars, api, gtm, eval>>
    \/ \E r \in Requests, l \in LtpResults :
         WhLtp(r, l) /\ UNCHANGED <<tmVars, api, gtm, eval>>
    \/ \E r \in Requests, out \in {"fyers_raise", "ok", "notok"},
          lot \in LotSizes :
         WhOrder(r, out, lot) /\ UNCHANGED <<tmVars, api, gtm, eval>>

\* Webhook requests, handled one after the other or overlapping.
SpecWebhook == WebhookInit /\ [][WebhookNext]_vars

\* The store is on its own: nothing else runs while it is exercised.
StoreInit ==
    /\ tokens = EmptyTokens /\ fyers = NoClient
    /\ localFile = NoFile /\ remoteBlob = NoFile
    /\ env = (CHOOSE e \in EnvConfigs : e.authCode /\ e.pin /\ e.bucket)
    /\ tz = 0 /\ now = 0
    /\ lock = 0 /\ calls = 0
    /\ th = [t \in Threads |-> IdleThread]
    /\ api = ApiIdle
    /\ wh = [r \in Requests |-> IdleRequest]
    /\ orders = 0
    /\ idem \in {NewStore(l) : l \in StoreTtls}
    /\ gtm = NoSingleton
    /\ eval = NoEval

storeOthers ==
    <<tokens, fyers, localFile, remoteBlob, env, tz, lock, th, calls, api, wh,
      orders, gtm, eval>>

StoreNext ==
    \/ \E k \in IdempotencyKeys, r \in StoredResponses, d \in {0, 1} :
         StoreSet(k, r, d) /\ UNCHANGED storeOthers
    \/ \E k \in IdempotencyKeys, d \in {0, 1} :
         StoreGet(k, d) /\ UNCHANGED storeOthers
    \/ StoreTick /\ UNCHANGED storeOthers

\* set and get calls on one IdempotencyStore while its clock advances.
SpecStore == StoreInit /\ [][StoreNext]_vars

\* The record in memory is any record the manager can hold; the file and
\* the blob hold what earlier saves left there.
PersistInit ==
    /\ tokens \in InitialRecords
    /\ localFile \in {NoFile} \cup {File(r) : r \in InitialRecords}
    /\ remoteBlob \in {NoFile} \cup {File(r) : r \in InitialRecords}
    /\ fyers = NoClient
    /\ env \in EnvConfigs
    /\ tz = 0 /\ now = StartTime
    /\ lock = 0 /\ calls = 0
    /\ th = [t \in Threads |-> IdleThread]
    /\ api = ApiIdle
    /\ WhInit

PersistNext ==
    \/ \E ld \in LoadOutcomes : PersistLoad(ld) /\ UNCHANGED <<api, whVars, gtm, eval>>
    \/ \E sv \in SaveOutcomes : PersistSave(sv) /\ UNCHANGED <<api, whVars, gtm, eval>>

\* _load_tokens and _save_tokens called one after the other.
SpecPersist == PersistInit /\ [][PersistNext]_vars

\* One request with the manager behind place_order's recovery: a stored
\* record with a refresh token, and every setting configured.
RequestInit ==
    /\ tokens = (CHOOSE r \in InitialRecords : Truthy(r.refresh_token))
    /\ localFile = File(tokens) /\ remoteBlob = File(tokens)
    /\ fyers = NoClient
    /\ env = (CHOOSE e \in EnvConfigs : e.authCode /\ e.pin /\ e.bucket)
    /\ tz = 0 /\ now = StartTime
    /\ lock = 0 /\ calls = 0
    /\ th = [t \in Threads |-> IdleThread]
    /\ api = ApiIdle
    /\ WhInit

RequestNext ==
    \/ \E p \in Payloads, mq \in WebhookMaxQtys :
         WhReceiveAlone(p, mq) /\ UNCHANGED <<tmVars, api, gtm, eval>>
    \/ \E found \in BOOLEAN : WhResolve(1, found) /\ UNCHANGED <<tmVars, api, gtm, eval>>
    \/ \E out \in {"client", "None", "raise"} :
         WhGetFyers(1, out) /\ UNCHANGED <<tmVars, api, gtm, eval>>
    \/ \E short \in BOOLEAN : WhPositions(1, short) /\ UNCHANGED <<tmVars, api, gtm, eval>>
    \/ \E l \in LtpResults : WhLtp(1, l) /\ UNCHANGED <<tmVars, api, gtm, eval>>
    \/ \E fy \in {"client", "raise"}, lot \in LotSizes : WhOrderBegin(1, fy, lot)
    \/ WhOrderEnd(1)
    \/ \E outcome \in CallOutcomes : ApiCall(outcome) /\ UNCHANGED <<whVars, gtm, eval>>
    \/ ApiSleep /\ UNCHANGED <<whVars, gtm, eval>>
    \/ ApiRefresh /\ UNCHANGED <<whVars, gtm, eval>>
    \/ ApiAfterRefresh /\ UNCHANGED <<whVars, gtm, eval>>
    \/ ApiAfterClient /\ UNCHANGED <<whVars, gtm, eval>>
    \/ \E initFail \in BOOLEAN :
         Acquire(1, initFail) /\ UNCHANGED <<api, whVars, gtm, eval>>
    \/ \E resp \in ProviderResponses, sv \in SaveOutcomes,
          initFail \in BOOLEAN :
         RefreshResponse(1, resp, sv, initFail) /\ UNCHANGED <<api, whVars, gtm, eval>>

\* One webhook request, its order placed through place_order's retries.
SpecRequest == RequestInit /\ [][RequestNext]_vars

\* Only get_token_manager() runs; the manager it builds is not called.
SingletonInit ==
    /\ tokens = EmptyTokens /\ fyers = NoClient
    /\ localFile = NoFile /\ remoteBlob = NoFile
    /\ env = (CHOOSE e \in EnvConfigs : e.authCode /\ e.pin /\ e.bucket)
    /\ tz = 0 /\ now = StartTime
    /\ lock = 0 /\ calls = 0
    /\ th = [t \in Threads |-> IdleThread]
    /\ api = ApiIdle
    /\ WhInit

singletonOthers == <<tmVars, api, whVars, eval>>

SingletonNext ==
    \/ \E c \in Callers : GtmCall(c) /\ UNCHANGED singletonOthers
    \/ \E c \in Callers : GtmFirstCheck(c) /\ UNCHANGED singletonOthers
    \/ \E c \in Callers : GtmLock(c) /\ UNCHANGED singletonOthers
    \/ \E c \in Callers, raises \in BOOLEAN :
         GtmConstruct(c, raises) /\ UNCHANGED singletonOthers
    \/ \E c \in Callers : GtmReturn(c) /\ UNCHANGED singletonOthers

\* Threads calling get_token_manager() concurrently.
SpecSingleton == SingletonInit /\ [][SingletonNext]_vars

\* One request: its key is computed, then the webhook handles it.
KeyInit == WebhookInit

KeyNext ==
    \/ \E req \in KeyRequests :
         KeyEval(req) /\ UNCHANGED <<tmVars, api, whVars, gtm>>
    \/ \E p \in Payloads :
         WhReceiveKeyed(p) /\ UNCHANGED <<tmVars, api, gtm, eval>>
    \/ \E found \in BOOLEAN :
         WhResolve(1, found) /\ UNCHANGED <<tmVars, api, gtm, eval>>
    \/ \E out \in {"client", "None", "raise"} :
         WhGetFyers(1, out) /\ UNCHANGED <<tmVars, api, gtm, eval>>
    \/ \E short \in BOOLEAN :
         WhPositions(1, short) /\ UNCHANGED <<tmVars, api, gtm, eval>>
    \/ \E l \in LtpResults :
         WhLtp(1, l) /\ UNCHANGED <<tmVars, api, gtm, eval>>
    \/ \E out \in {"fyers_raise", "ok", "notok"}, lot \in LotSizes :
         WhOrder(1, out, lot) /\ UNCHANGED <<tmVars, api, gtm, eval>>

\* get_idempotency_key on a request and the webhook's handling of it.
SpecKey == KeyInit /\ [][KeyNext]_vars

\* Any record, at any reading of the clock.
ExpiryInit ==
    /\ tokens \in ExpiryRecords
    /\ now \in ExpiryTimes
    /\ tz \in TzOffsets
    /\ fyers = NoClient
    /\ localFile = NoFile /\ remoteBlob = NoFile
    /\ env = (CHOOSE e \in EnvConfigs : e.authCode /\ e.pin /\ e.bucket)
    /\ lock = 0 /\ calls = 0
    /\ th = [t \in Threads |-> IdleThread]
    /\ api = ApiIdle
    /\ wh = [r \in Requests |-> IdleRequest]
    /\ orders = 0
    /\ idem = NewStore(DEFAULT_TTL_SECONDS)
    /\ gtm = NoSingleton
    /\ eval = NotEvaluated

ExpiryNext == ExpiryCheck /\ UNCHANGED <<tmVars, api, whVars, gtm>>

\* _is_token_expired evaluated on a record.
SpecExpiry == ExpiryInit /\ [][ExpiryNext]_vars

\* Any call of _validate_order_params.
ParamsInit ==
    /\ tokens = EmptyTokens /\ fyers = NoClient
    /\ localFile = NoFile /\ remoteBlob = NoFile
    /\ env = (CHOOSE e \in EnvConfigs : e.authCode /\ e.pin /\ e.bucket)
    /\ tz = 0 /\ now = StartTime
    /\ lock = 0 /\ calls = 0
    /\ th = [t \in Threads |-> IdleThread]
    /\ api = ApiIdle
    /\ wh = [r \in Requests |-> IdleRequest]
    /\ orders = 0
    /\ idem = NewStore(DEFAULT_TTL_SECONDS)
    /\ gtm = NoSingleton
    /\ eval \in ParamCalls

ParamsNext == ParamsValidate /\ UNCHANGED <<tmVars, api, whVars, gtm>>

SpecParams == ParamsInit /\ [][ParamsNext]_vars

\* A failing refresh_token or webhook reaches its send_notification call.
NotifyInit ==
    /\ tokens = EmptyTokens /\ fyers = NoClient
    /\ localFile = NoFile /\ remoteBlob = NoFile
    /\ env = (CHOOSE e \in EnvConfigs : e.authCode /\ e.pin /\ e.bucket)
    /\ tz = 0 /\ now = StartTime
    /\ lock = 0 /\ calls = 0
    /\ th = [t \in Threads |-> IdleThread]
    /\ api = ApiIdle
    /\ wh = [r \in Requests |-> IdleRequest]
    /\ orders = 0
    /\ idem = NewStore(DEFAULT_TTL_SECONDS)
    /\ gtm = NoSingleton
    /\ eval \in NotifyCalls

NotifyNext ==
    \/ NotifySend /\ UNCHANGED <<tmVars, api, whVars, gtm>>
    \/ NotifySiteReturn /\ UNCHANGED <<tmVars, api, whVars, gtm>>

SpecNotify == NotifyInit /\ [][NotifyNext]_vars

\* A MonitorThread is started on an open trade.
MonitorInit ==
    /\ tokens = EmptyTokens /\ fyers = NoClient
    /\ localFile = NoFile /\ remoteBlob = NoFile
    /\ env = (CHOOSE e \in EnvConfigs : e.authCode /\ e.pin /\ e.bucket)
    /\ tz = 0 /\ now = StartTime
    /\ lock = 0 /\ calls = 0
    /\ th = [t \in Threads |-> IdleThread]
    /\ api = ApiIdle
    /\ wh = [r \in Requests |-> IdleRequest]
    /\ orders = 0
    /\ idem = NewStore(DEFAULT_TTL_SECONDS)
    /\ gtm = NoSingleton
    /\ eval \in MonitorThreads

\* The thread is scheduled: it runs an iteration or returns from its sleep.
MonitorRuns ==
    \/ \E v \in PatchedSamples \cup {Coroutine} :
         MonitorIterate(v) /\ UNCHANGED <<tmVars, api, whVars, gtm>>
    \/ MonitorWake /\ UNCHANGED <<tmVars, api, whVars, gtm>>

MonitorNext ==
    \/ MonitorRuns
    \/ MonitorClock /\ UNCHANGED <<tmVars, api, whVars, gtm>>

SpecMonitor == MonitorInit /\ [][MonitorNext]_vars

\* An iteration in which the call of get_ltp yields a number.
MonitorPriced ==
    \E v \in {x \in PatchedSamples : IsNumber(x)} :
        MonitorIterate(v) /\ UNCHANGED <<tmVars, api, whVars, gtm>>

\* The thread keeps being scheduled, the clock keeps moving, and a price
\* source that can yield numbers does so again and again.
SpecMonitorFair ==
    /\ SpecMonitor
    /\ WF_vars(MonitorRuns)
    /\ WF_vars(MonitorClock /\ UNCHANGED <<tmVars, api, whVars, gtm>>)
    /\ SF_vars(MonitorPriced)

\* ======================================================= claims: TokenManager

\* A record holds a present access token that has not expired on the host clock.
TokenUsable(tok, t, z) ==
    /\ Truthy(tok.access_token)
    /\ \/ tok.expires_at.kind = "none"
       \/ tok.expires_at.kind = "naive" /\ t + z < tok.expires_at.v

\* Every thread called get_access_token() while the token was expired, all the
\* calls overlapped, and all have returned or raised.
AllCalledConcurrently ==
    \A t \in Threads :
        /\ Done(t)
        /\ th[t].op = "gat"
        /\ th[t].invokedExpired
        /\ th[t].conc = Threads \ {t}

RefreshCallers == {t \in Threads : th[t].nRefresh > 0}

GenerateCallers == {t \in Threads : th[t].nGen > 0}

\* The threads whose own provider exchange gave them a non-empty token.
Obtainers ==
    {t \in Threads :
        th[t].nRefresh + th[t].nGen > 0 /\ th[t].exc = NoneV /\ Truthy(th[t].ret)}

\* C3 (as stated): N threads calling get_access_token() concurrently on an
\* expired token make one refresh call (or one generate call) in total, not
\* one per thread.
C3_OneExchangeInTotal ==
    AllCalledConcurrently =>
        /\ Cardinality(RefreshCallers) <= 1
        /\ Cardinality(GenerateCallers) <= 1

\* C3 (amended): the calls are serialized.  Each thread makes at most one
\* refresh and one generate call, and only when it finds the token expired
\* on entering the lock; at most one thread obtains a non-empty token from
\* the provider, it leaves that token stored and unexpired, and every thread
\* that returns a non-empty token returns that same token.  (Threads whose
\* predecessors failed repeat the exchange, so the total is not one.)
C3_SerializedExchange ==
    AllCalledConcurrently =>
        /\ \A t \in Threads :
              /\ th[t].nRefresh <= 1 /\ th[t].nGen <= 1
              /\ ~th[t].lockExpired =>
                    th[t].nRefresh = 0 /\ th[t].nGen = 0 /\ th[t].exc = NoneV
              /\ t \in Obtainers => th[t].retValid
        /\ Cardinality(Obtainers) <= 1
        /\ \A t, u \in Threads :
              (th[t].exc = NoneV /\ Truthy(th[t].ret)
               /\ th[u].exc = NoneV /\ Truthy(th[u].ret)) =>
                  th[t].ret = th[u].ret

\* C3 witness: two overlapping calls, one obtained the token, the other
\* returned it without contacting the provider.
C3_Witness ==
    /\ AllCalledConcurrently
    /\ \E t, u \in Threads :
          /\ t \in Obtainers
          /\ u # t /\ th[u].nRefresh + th[u].nGen = 0
          /\ th[u].ret = th[t].ret

\* C4: whatever get_access_token() or get_fyers_client() returns normally is
\* (bound to) the stored access token, present and unexpired at the return.
C4_ReturnedTokenValid ==
    \A t \in Threads :
        (Done(t) /\ th[t].op \in {"gat", "client"} /\ th[t].exc = NoneV) =>
            th[t].retValid

\* C5: get_access_token() on a present, unexpired token returns the stored
\* token, contacts no provider and changes nothing the manager owns.
C5_CachedTokenReturned ==
    [][\A t \in Threads :
        (/\ th[t].pc = "wait" /\ th'[t].pc # "wait"
         /\ th[t].op = "gat"
         /\ TokenUsable(tokens, now, tz)) =>
            /\ th'[t].pc = "done"
            /\ th'[t].exc = NoneV
            /\ th'[t].ret = tokens.access_token
            /\ th'[t].nRefresh = 0 /\ th'[t].nGen = 0
            /\ th'[t].trace = <<>>
            /\ tokens' = tokens /\ fyers' = fyers
            /\ localFile' = localFile /\ remoteBlob' = remoteBlob]_vars

C5_Witness ==
    \E t \in Threads :
        /\ Done(t) /\ th[t].op = "gat" /\ ~th[t].lockExpired
        /\ th[t].ret = "t0" /\ th[t].nRefresh = 0 /\ th[t].nGen = 0

\* C6 (as stated): on an expired or missing token get_access_token() calls
\* refresh_token() first, and generate_token() only if the refresh raised.
C6_GenerateOnlyAfterRaise ==
    \A t \in Threads :
        (th[t].op = "gat" /\ th[t].pc # "wait" /\ th[t].lockExpired) =>
            /\ th[t].trace # <<>> /\ th[t].trace[1] = "refresh"
            /\ Len(th[t].trace) > 1 => th[t].refreshOutcome = "raised"

\* C6 (amended): refresh_token() is called first; generate_token() is called
\* after it exactly when the refresh raised RefreshTokenError or returned an
\* empty token, and never when the refresh returned a token.
C6_GenerateAfterFailedRefresh ==
    \A t \in Threads :
        (th[t].op = "gat" /\ th[t].pc # "wait" /\ th[t].lockExpired) =>
            /\ th[t].trace \in {<<"refresh">>, <<"refresh", "generate">>}
            /\ th[t].pc # "refresh_call" =>
                  (th[t].trace = <<"refresh", "generate">>
                     <=> th[t].refreshOutcome \in {"raised", "empty"})

\* C6 witness: a refresh that raised, followed by a generate that succeeded.
C6_Witness ==
    \E t \in Threads :
        /\ Done(t) /\ th[t].op = "gat" /\ th[t].lockExpired
        /\ th[t].refreshOutcome = "raised"
        /\ th[t].trace = <<"refresh", "generate">>
        /\ th[t].nGen = 1 /\ th[t].exc = NoneV /\ th[t].ret = "tA"

\* C7: a refresh that returns normally keeps the stored refresh_token (the
\* responses drawn include those that omit it), in memory and in whatever
\* it persists, and writes the new access token, issued_at and expires_at.
C7_RefreshTokenPreserved ==
    [][\A t \in Threads :
        (/\ th[t].pc = "refresh_call" /\ th'[t].pc # "refresh_call"
         /\ th'[t].refreshOutcome \in {"token", "empty"}) =>
            /\ Truthy(tokens.refresh_token)
            /\ tokens'.refresh_token = tokens.refresh_token
            /\ tokens'.access_token \in IssuedTokens
            /\ th[t].op = "refresh" => th'[t].ret = tokens'.access_token
            /\ tokens'.issued_at = Naive(now)
            /\ tokens'.expires_at = Naive(now + TOKEN_VALIDITY_SECONDS)
            /\ localFile' \in {localFile, File(tokens')}
            /\ remoteBlob' \in {remoteBlob, File(tokens')}]_vars

C7_Witness ==
    \E t \in Threads :
        /\ Done(t) /\ th[t].op = "refresh" /\ th[t].exc = NoneV
        /\ th[t].ret = "tA"
        /\ tokens.access_token = "tA" /\ tokens.refresh_token = "r0"
        /\ tokens.issued_at = Naive(now)
        /\ localFile = File(tokens) /\ remoteBlob = File(tokens)

\* C8: with no authorization code and no stored refresh token,
\* get_access_token() on an expired or missing token raises
\* AuthCodeMissingError and contacts no provider.
C8_AuthCodeMissing ==
    [][\A t \in Threads :
        (/\ th[t].pc = "wait" /\ th'[t].pc # "wait"
         /\ th[t].op = "gat"
         /\ ~TokenUsable(tokens, now, tz)
         /\ ~Truthy(tokens.refresh_token)
         /\ ~env.authCode) =>
            /\ th'[t].pc = "done"
            /\ th'[t].exc = "AuthCodeMissingError"
            /\ th'[t].nRefresh = 0 /\ th'[t].nGen = 0
            /\ tokens' = tokens]_vars

C8_Witness ==
    \E t \in Threads :
        /\ Done(t) /\ th[t].op = "gat" /\ th[t].lockExpired
        /\ ~env.authCode /\ ~Truthy(tokens.refresh_token)
        /\ th[t].exc = "AuthCodeMissingError"
        /\ th[t].nRefresh = 0 /\ th[t].nGen = 0

\* ============================================================ claims: retry
\* The k-th term of the sequence d, d*b, d*b*b, ...
RECURSIVE Geometric(_, _, _)
Geometric(d, b, k) == IF k <= 1 THEN d ELSE b * Geometric(d, b, k - 1)

\* C9: for a call that always raises, _retry_api_call with retries = n >= 1,
\* delay = d and backoff = b invokes it exactly n times, sleeps d * b^(k-1)
\* after the k-th failure for k = 1..n-1, does not sleep after the last
\* failure, and then lets the error of that last invocation propagate.
C9_RetrySchedule ==
    (/\ api.kind = "direct" /\ api.pc = "done"
     /\ api.retries >= 1
     /\ api.fails = api.inv1) =>
        /\ api.inv1 = api.retries
        /\ api.sleeps = [k \in 1..(api.retries - 1) |->
                            Geometric(api.delay, api.backoff, k)]
        /\ api.result = "raised"
        /\ api.err = api.retries

C9_Witness ==
    /\ api.kind = "direct" /\ api.pc = "done"
    /\ api.retries = DEFAULT_RETRIES
    /\ api.delay = INITIAL_DELAY /\ api.backoff = BACKOFF_FACTOR
    /\ api.result = "raised" /\ api.inv1 = 3
    /\ api.sleeps = <<1, 2>>

\* ========================================================= claims: wrappers
Wrappers == ApiKinds \ {"direct"}

\* Invocations of the second _retry_api_call that raised.
Fails2 == api.fails - (api.inv1 - 1)

\* C10 as stated: after a 401 response exactly one refresh_token() is
\* performed and the call is retried exactly once; the recovery path is
\* entered once.
C10_OneRefreshOneRetry ==
    (api.kind \in Wrappers /\ api.pc = "done" /\ api.entered > 0) =>
        /\ api.entered = 1
        /\ api.nRefresh + api.innerRefresh = 1
        /\ api.inv2 = 1

\* C10 (amended): when the first _retry_api_call of a wrapper returns a 401
\* response, the wrapper enters the recovery path once and calls
\* refresh_token() once.  If refresh_token() raises, the call is not run
\* again and the wrapper returns its error value.  Otherwise the call is run
\* again through one more _retry_api_call on what get_fyers_client()
\* returned: between 1 and `retries` invocations, a further one only after
\* an invocation that raised; get_fyers_client() refreshes at most once more.
\* A 401 response of the second run starts no other recovery.
C10_BoundedRecovery ==
    (api.kind \in Wrappers /\ api.entered > 0) =>
        /\ api.entered = 1
        /\ api.nRefresh <= 1 /\ api.nClient <= 1 /\ api.innerRefresh <= 1
        /\ api.inv2 <= api.retries
        /\ api.pc = "done" =>
            /\ api.nRefresh = 1
            /\ api.refreshRaised =>
                /\ api.nClient = 0 /\ api.inv2 = 0
                /\ api.result = ErrorValue(api.kind)
            /\ api.inv2 > 0 =>
                /\ api.nClient = 1
                /\ api.inv2 - Fails2 <= 1
                /\ api.inv2 = Fails2 => api.inv2 = api.retries

C10_Witness ==
    /\ api.kind = "place_order" /\ api.pc = "done"
    /\ api.entered = 1 /\ api.nRefresh = 1
    /\ api.inv2 = 2
    /\ api.result = "unauthorized"

\* ========================================================== claims: webhook
SamePayload(r1, r2) == wh[r1].payload = wh[r2].payload

\* C1: with TTL > 0, when two requests with the same idempotency key are
\* handled one after the other and the first placed its order, the second
\* returns the status and body of the first, makes no external call, and
\* the count of place_order calls stays 1.
C1_ReplayReturnsFirstResponse ==
    \A r1, r2 \in Requests :
        (/\ r1 # r2 /\ idem.ttl > 0
         /\ wh[r1].pc = "done" /\ wh[r2].pc = "done"
         /\ r1 \in wh[r2].after
         /\ wh[r1].payload.key # NoneV /\ SamePayload(r1, r2)
         /\ wh[r1].status = 200) =>
            /\ wh[r2].status = wh[r1].status
            /\ wh[r2].body = wh[r1].body
            /\ wh[r2].external = 0
            /\ orders = 1

\* C2: with TTL > 0, when two requests with the same idempotency key
\* overlap (the second is received before the first has its terminal
\* response), place_order is called at most once for that key.
C2_AtMostOneOrderPerKey ==
    \A r1, r2 \in Requests :
        (/\ r1 # r2 /\ idem.ttl > 0
         /\ wh[r1].pc # "idle" /\ wh[r2].pc # "idle"
         /\ r1 \notin wh[r2].after /\ r2 \notin wh[r1].after
         /\ wh[r1].payload.key # NoneV
         /\ wh[r1].payload.key = wh[r2].payload.key) =>
            wh[r1].placed + wh[r2].placed <= 1

\* ============================================================ claims: store
\* C11: a store constructed with TTL = 0 keeps nothing: its entry map is
\* empty after any sequence of calls and every get misses, also on a key
\* that was set before.
C11_ZeroTtlStoresNothing ==
    idem.ttl = 0 =>
        /\ idem.data = {}
        /\ idem.last.op = "get" => ~idem.last.hit

C11_Witness ==
    /\ idem.ttl = 0
    /\ idem.last.op = "get" /\ ~idem.last.hit
    /\ idem.sets[idem.last.key].isSet

\* The expiry time of the latest set() on key k.
ExpiresAt(k) == idem.sets[k].at + idem.ttl

\* C12: for TTL > 0 a get on a key returns the response of the latest set on
\* that key as long as the time of the get has not passed that set's time +
\* TTL; past it (or with no set before) the get misses, and the key's entry
\* is gone from the map.
C12_GetHonoursExpiry ==
    (idem.ttl > 0 /\ idem.last.op = "get") =>
        LET k == idem.last.key
            live == idem.sets[k].isSet /\ idem.last.at <= ExpiresAt(k)
        IN /\ live => idem.last.hit /\ idem.last.resp = idem.sets[k].resp
           /\ ~live =>
                /\ ~idem.last.hit
                /\ \A e \in idem.data : e.key # k

C12_Witness ==
    /\ idem.ttl > 0
    /\ idem.last.op = "get" /\ ~idem.last.hit
    /\ idem.sets[idem.last.key].isSet
    /\ idem.last.at = ExpiresAt(idem.last.key) + 1

\* ====================================================== claims: persistence
\* What a load that meets no failure returns from the given file and blob.
Stored(local, remote) == LoadTokens(local, remote, env, "ok").rec

\* C13: for every token record, a save that meets no failure followed by a
\* load returns the record field for field, and a load followed by a save
\* (neither meeting a failure) leaves the stored record unchanged.
C13_SaveLoadRoundTrip ==
    [][/\ (calls' = calls + 1 /\ th'[1].op = "save" /\ th'[1].io = "ok") =>
            \A f \in TokenFields :
                Stored(localFile', remoteBlob')[f] = tokens'[f]
       /\ (/\ calls' = calls + 1 /\ th'[1].op = "save" /\ th'[1].io = "ok"
           /\ th[1].op = "load" /\ th[1].io = "ok") =>
            Stored(localFile', remoteBlob') = Stored(localFile, remoteBlob)
      ]_vars

\* ================================================= claims: webhook request
Received(r) == wh[r].pc # "idle"

\* C14 as stated: a request whose token differs from the secret is answered
\* 401 and causes no symbol resolution, brokerage call or order.
C14_BadTokenUnauthorized ==
    \A r \in Requests :
        (Received(r) /\ wh[r].payload.token = "wrong") =>
            /\ wh[r].pc = "done" /\ wh[r].status = 401
            /\ wh[r].external = 0 /\ wh[r].clients = 0 /\ wh[r].placed = 0

\* C14 (amended): a request whose token is absent or differs from the
\* secret causes no symbol resolution, client acquisition, brokerage call or
\* order; it is answered 401 when its other required fields are present and
\* its token is present but wrong, and 400 when a required field (the token
\* included) is missing.
C14_BadTokenNoSideEffect ==
    \A r \in Requests :
        (Received(r) /\ wh[r].payload.token # "secret") =>
            /\ wh[r].pc = "done"
            /\ wh[r].external = 0 /\ wh[r].clients = 0 /\ wh[r].placed = 0
            /\ wh[r].status =
                 IF wh[r].payload.complete /\ wh[r].payload.token = "wrong"
                 THEN 401 ELSE 400

C14_Witness ==
    \E r \in Requests :
        /\ wh[r].pc = "done" /\ wh[r].payload.token = "wrong"
        /\ wh[r].payload.complete
        /\ wh[r].status = 401 /\ wh[r].external = 0

\* C15: a BUY request has place_order called only after has_short_position
\* reported a short position; when it reported none the request is answered
\* 400 with no order.
C15_BuyOnlyWithShort ==
    \A r \in Requests :
        wh[r].payload.action = "BUY" =>
            /\ wh[r].placed > 0 => wh[r].short = "short"
            /\ wh[r].short = "none" =>
                 wh[r].pc = "done" /\ wh[r].status = 400 /\ wh[r].placed = 0

\* C16: a request whose action is neither BUY nor SELL has no order placed
\* and is not answered with success.
C16_InvalidActionRejected ==
    \A r \in Requests :
        (Received(r) /\ wh[r].payload.action \notin {"BUY", "SELL"}) =>
            wh[r].placed = 0 /\ wh[r].status # 200

\* C17: with WEBHOOK_MAX_QTY configured, a request whose qty, or whose
\* defaulted qty, exceeds it has no order placed and is not answered with
\* success.
C17_QtyWithinMaximum ==
    \A r \in Requests :
        (/\ Received(r) /\ wh[r].maxQty > 0
         /\ \/ wh[r].payload.qty > wh[r].maxQty
            \/ wh[r].sent.qty > wh[r].maxQty) =>
            wh[r].placed = 0 /\ wh[r].status # 200

\* C18: when the price lookup gave no usable price (None, the error dict,
\* or an exception before it) the order is sent with the caller's sl and tp
\* when the caller supplied them and with the defaults 10 and 20 otherwise.
C18_StopsFallBackToCaller ==
    \A r \in Requests :
        (wh[r].placed > 0 /\ wh[r].ltp # "price") =>
            /\ wh[r].sent.sl = IF wh[r].payload.stops.sl > 0
                               THEN wh[r].payload.stops.sl ELSE 10
            /\ wh[r].sent.tp = IF wh[r].payload.stops.tp > 0
                               THEN wh[r].payload.stops.tp ELSE 20

\* C19: when get_symbol_from_csv returns no symbol the request ends with
\* status 403 after that one resolution call: no client is acquired and no
\* positions call, price lookup or order placement is made.
C19_ResolutionMissIsTerminal ==
    \A r \in Requests :
        wh[r].resolved = "miss" =>
            /\ wh[r].pc = "done" /\ wh[r].status = 403
            /\ wh[r].external = 1 /\ wh[r].clients = 0
            /\ wh[r].short = "unasked" /\ wh[r].ltp = "unasked"
            /\ wh[r].placed = 0

C19_Witness ==
    \E r \in Requests :
        /\ wh[r].resolved = "miss" /\ wh[r].pc = "done"
        /\ wh[r].status = 403 /\ wh[r].external = 1

\* The order stage of the request is over and did not end in an ok
\* response: get_fyers() raised there, or place_order returned something else.
OrderEndedBadly(r) ==
    /\ wh[r].pc = "done" /\ wh[r].clients = 2
    /\ wh[r].placed = 0 \/ (api.pc = "done" /\ api.result # "ok")

\* C20 as stated: when order submission ends in a non-ok response or an
\* exception the request is answered 500 and the brokerage was asked to
\* place the order at most `retries` times.
C20_FailureWithinRetries ==
    \A r \in Requests :
        OrderEndedBadly(r) =>
            /\ wh[r].status = 500
            /\ wh[r].attempts <= DEFAULT_RETRIES

\* C20 (amended): when order submission ends in a non-ok response or an
\* exception the request is answered 500 and is not submitted again; the
\* brokerage was asked at most `retries` times, or, when the first run of
\* the retry executor returned a 401 response, at most `retries` times more
\* in the one re-run after the refresh.
C20_FailureIsTerminal ==
    \A r \in Requests :
        OrderEndedBadly(r) =>
            /\ wh[r].status = 500
            /\ wh[r].placed <= 1
            /\ wh[r].attempts <= 2 * DEFAULT_RETRIES
            /\ wh[r].attempts > DEFAULT_RETRIES => api.entered = 1

C20_Witness ==
    \E r \in Requests :
        /\ OrderEndedBadly(r) /\ wh[r].status = 500
        /\ wh[r].attempts = 2 * DEFAULT_RETRIES
        /\ api.entered = 1

\* ==================================================== claims: singleton

\* C21 (as stated): every caller is handed the same instance and, once a
\* call has been made to the end, the TokenManager constructor has run
\* exactly once.
C21_ConstructorRunsOnce ==
    /\ Cardinality(gtm.returned) <= 1
    /\ (\E c \in Callers : gtm.callers[c].pc = "done") => gtm.ctor = 1

\* C21 (amended): every caller that is handed an instance is handed the same
\* one; the constructor returns an object at most once, and no constructor
\* run starts after that; every other constructor run raised to its caller,
\* so that with no raising run the constructor runs exactly once.
C21_OneInstance ==
    /\ Cardinality(gtm.returned) <= 1
    /\ NoInstance \notin gtm.returned
    /\ gtm.built <= 1
    /\ gtm.built = 1 => gtm.instance = gtm.ctor
    /\ \A c \in Callers :
         gtm.callers[c].pc = "done" /\ gtm.callers[c].exc = NoneV =>
           /\ gtm.callers[c].ret = gtm.instance
           /\ gtm.built = 1
    /\ gtm.raised = 0 /\ gtm.returned # {} => gtm.ctor = 1

\* Two first calls that both found no instance at the unlocked check have
\* both returned, after a single constructor run.
C21_Witness ==
    \E c, d \in Callers :
      /\ c # d
      /\ gtm.callers[c].pc = "done" /\ gtm.callers[d].pc = "done"
      /\ gtm.callers[c].sawNone /\ gtm.callers[d].sawNone
      /\ gtm.callers[c].ret = gtm.callers[d].ret
      /\ gtm.callers[c].ret # NoInstance
      /\ gtm.ctor = 1

\* ============================================== claims: idempotency key

\* The key as the claim words it: the trimmed header when that is not empty,
\* else the trimmed body field of a JSON request when that is not empty.
ClaimedKey(req) ==
    LET hdr == IF req.header.kind = "text" THEN Strip(req.header.text)
               ELSE <<>>
        fld == IF req.is_json /\ req.field.kind = "text"
               THEN Strip(req.field.text) ELSE <<>>
    IN IF hdr # <<>> THEN Join(hdr)
       ELSE IF fld # <<>> THEN Join(fld) ELSE NoneV

Exchanging ==
    {t \in Threads :
        th[t].pc \in {"refresh_call", "gen_call", "refresh_store", "gen_store"}}

\* The record is between the first and the last assignment of an update.
PartlyUpdated == \E t \in Threads : th[t].pc \in {"refresh_store", "gen_store"}

\* C24: at most one refresh or generate exchange is in flight at any time; a
\* thread that called a manager method while an exchange is in flight stays
\* blocked until the exchange and its update are complete, and the record it
\* then reads is the whole updated record: a get_access_token() caller that
\* finds it usable returns its access token with no exchange of its own.
C24_OneExchangeInFlight ==
    [][/\ Cardinality(Exchanging) <= 1
       /\ \A t \in Threads :
            (th[t].pc = "wait" /\ th'[t].pc # "wait") =>
               /\ Exchanging = {}
               /\ ~PartlyUpdated
               /\ (th[t].op = "gat" /\ TokenUsable(tokens, now, tz)) =>
                     /\ th'[t].pc = "done"
                     /\ th'[t].ret = tokens.access_token
                     /\ th'[t].nRefresh + th'[t].nGen = 0]_vars

\* A caller that arrived while another thread's refresh was in flight has
\* returned the refreshed token without an exchange of its own.
C24_Witness ==
    \E t, u \in Threads :
        /\ t # u
        /\ Done(t) /\ Done(u)
        /\ u \in th[t].conc
        /\ th[u].nRefresh = 1 /\ th[u].exc = NoneV /\ th[u].ret = "tA"
        /\ th[t].op = "gat" /\ th[t].invokedExpired /\ ~th[t].lockExpired
        /\ th[t].nRefresh + th[t].nGen = 0
        /\ th[t].ret = "tA"

\* C25: refresh_token() raises RefreshTokenError and has sent a notification
\* in every failure case.  With no stored refresh token or no PIN it does so
\* without contacting the provider; with a non-ok answer or a transport
\* error it does so leaving the record as it was.  (Called from
\* get_access_token() or get_fyers_client(), the raise is what they catch.)
C25_RefreshFailureNotifies ==
    [][\A t \in Threads :
        /\ (/\ th[t].pc = "wait" /\ th'[t].pc # "wait"
            /\ th'[t].trace # <<>> /\ th'[t].trace[1] = "refresh"
            /\ RefreshMissing(Mgr, env)) =>
               /\ th'[t].refreshOutcome = "raised"
               /\ th'[t].notes >= 1
               /\ th'[t].nRefresh = 0
               /\ th[t].op = "refresh" =>
                     th'[t].pc = "done" /\ th'[t].exc = "RefreshTokenError"
        /\ (/\ th[t].pc = "refresh_call" /\ th'[t].pc # "refresh_call"
            /\ th'[t].answer \in {"raise", "notok"}) =>
               /\ th'[t].refreshOutcome = "raised"
               /\ th'[t].notes >= 1
               /\ tokens' = tokens
               /\ th[t].op = "refresh" =>
                     th'[t].pc = "done" /\ th'[t].exc = "RefreshTokenError"]_vars

\* A refresh_token() call with no PIN configured has raised, notified, and
\* not contacted the provider.
C25_Witness ==
    \E t \in Threads :
        /\ Done(t) /\ th[t].op = "refresh"
        /\ Truthy(tokens.refresh_token) /\ ~env.pin
        /\ th[t].exc = "RefreshTokenError"
        /\ th[t].notes = 1 /\ th[t].nRefresh = 0

C27_ClientBoundToCurrentToken ==
    [][/\ fyers' # NoClient => fyers'.token = tokens'.access_token
       /\ \A t \in Threads :
            (/\ th[t].pc # "done" /\ th'[t].pc = "done"
             /\ th[t].op = "client" /\ th'[t].exc = NoneV) =>
                /\ th'[t].client = fyers'
                /\ th'[t].client # NoClient =>
                      th'[t].client.token = tokens'.access_token
                /\ Truthy(tokens'.access_token) =>
                      th'[t].client = Client(tokens'.access_token)]_vars

\* After a refresh changed the token, get_fyers_client() has returned a
\* client bound to the new token.
C27_Witness ==
    \E t \in Threads :
        /\ Done(t) /\ th[t].op = "client" /\ th[t].exc = NoneV
        /\ th[t].nRefresh = 1 /\ th[t].answer = "ok"
        /\ tokens.access_token = "tA"
        /\ th[t].client = Client("tA")
        /\ fyers = Client("tA")

\* A _save_tokens() or _load_tokens() call is made in this step.
SaveStep == calls' = calls + 1 /\ th'[1].op = "save"

LoadStep == calls' = calls + 1 /\ th'[1].op = "load"

\* C28: _save_tokens() writes the remote blob only together with the local
\* file, never after a failed local write; when the upload fails it returns
\* normally and the local file holds the new record; so whenever the blob is
\* written the local file holds the same record, and the local file changes
\* otherwise only to the record being saved or to a copy of the blob.
C28_LocalBeforeRemote ==
    [][/\ SaveStep =>
            /\ th'[1].exc = NoneV
            /\ th'[1].io = "local_fail" =>
                  remoteBlob' = remoteBlob /\ localFile' = localFile
            /\ (th'[1].io = "remote_fail" /\ env.bucket) =>
                  localFile' = File(tokens) /\ remoteBlob' = remoteBlob
       /\ remoteBlob' # remoteBlob =>
            SaveStep /\ remoteBlob' = File(tokens) /\ localFile' = remoteBlob'
       /\ (remoteBlob' = remoteBlob /\ localFile' # localFile) =>
            \/ SaveStep /\ localFile' = File(tokens)
            \/ LoadStep /\ localFile' = remoteBlob]_vars

\* A save whose upload failed has left the new record in the local file and
\* the blob as it was.
C28_Witness ==
    /\ th[1].op = "save" /\ th[1].io = "remote_fail" /\ th[1].exc = NoneV
    /\ env.bucket
    /\ localFile = File(tokens)
    /\ remoteBlob # localFile

\* C29: with no bucket name configured, _save_tokens() still writes the
\* record to the local file, _load_tokens() still returns the local file's
\* record, and neither raises.
C29_LocalOnlyWithoutBucket ==
    [][~env.bucket =>
         /\ (SaveStep /\ th'[1].io = "ok") =>
               /\ th'[1].exc = NoneV
               /\ localFile' = File(tokens)
               /\ remoteBlob' = remoteBlob
         /\ (LoadStep /\ th'[1].io = "ok" /\ localFile.present) =>
               /\ th'[1].exc = NoneV
               /\ tokens' = localFile.rec]_vars

ExchangeSucceeds(t) ==
    \/ /\ th[t].pc = "refresh_call" /\ th'[t].pc # "refresh_call"
       /\ th'[t].refreshOutcome \in {"token", "empty"}
    \/ /\ th[t].pc = "gen_call" /\ th'[t].pc = "done"
       /\ th'[t].exc = NoneV

\* C31: after every refresh or generate that returns normally, the record a
\* newly constructed TokenManager would load (local file first, then the
\* blob) equals the record in memory.
C31_PersistedEqualsMemory ==
    [][\A t \in Threads :
        ExchangeSucceeds(t) => Stored(localFile', remoteBlob') = tokens']_vars

\* C32: the token is expired when access_token is absent or empty; not
\* expired when access_token is present and expires_at is absent; expired
\* when expires_at does not parse; otherwise expired exactly when the
\* current time (the local time for a text without offset, the time in its
\* own zone for a text with one) is at or after expires_at.
C32_ExpiryRule ==
    eval.pc = "done" =>
        eval.expired =
            (\/ tokens.access_token \in {NoneV, ""}
             \/ /\ tokens.access_token \notin {NoneV, ""}
                /\ \/ tokens.expires_at.kind = "bad"
                   \/ /\ tokens.expires_at.kind = "naive"
                      /\ now + tz >= tokens.expires_at.v
                   \/ /\ tokens.expires_at.kind = "aware"
                      /\ now >= tokens.expires_at.v)

\* A present token checked at the very instant of its expires_at is expired.
C32_Witness ==
    /\ eval.pc = "done" /\ eval.expired
    /\ tokens.access_token = "t0"
    /\ tokens.expires_at = Naive(now + tz)

\* ================================================ claims: order parameters
\* C33: the normalised quantity is the given one, or the instrument's lot
\* size (1 when the instrument is unknown or the lot size is invalid) when
\* none is given; stop-loss and take-profit are the given ones when
\* positive and 10.0 and 20.0 otherwise; the product type is the given one
\* when recognised and BO otherwise, and the call returns in every case.
QuantityMissing(q) == q \in {PyNone, Num(0), EmptyText}

LotSizeOf(master) ==
    IF master.found /\ master.lot_size.t \in {"num", "text"}
    THEN master.lot_size.v ELSE 1

Positive(x) == x.t \in {"num", "text"} /\ x.v > 0

C34_SinkFailureContained ==
    /\ eval.pc \in {"sent", "done"} => ~eval.raised
    /\ eval.pc = "done" =>
         /\ eval.site \in {"refresh_missing", "refresh_notok", "refresh_error"}
              => eval.outcome = "RefreshTokenError"
         /\ eval.site \in {"order_failed", "order_exception", "unhandled"}
              => eval.outcome = "response_500"

\* refresh_token without a refresh token, with both deliveries raising.
C34_Witness ==
    /\ eval.pc = "done" /\ eval.site = "refresh_missing"
    /\ eval.sink.topic /\ eval.sink.pubsub /\ eval.sink.publishRaises
    /\ eval.sink.url /\ eval.sink.postRaises
    /\ eval.outcome = "RefreshTokenError"

\* ===================================================== claims: retry, part two
\* C35: a returned non-ok response other than the authentication failure
\* is handled like a raised error: _retry_api_call hands such a response
\* back only from the last of its `retries` tries.
C35_NonOkIsRetried ==
    (/\ api.kind = "direct" /\ api.pc = "done"
     /\ api.result = "notok") => api.inv1 = api.retries

\* C37: whatever retries is, _retry_api_call has invoked func at least once
\* when it finishes, and what it returns is a value func returned.
C37_FuncInvoked ==
    (api.kind = "direct" /\ api.pc = "done") =>
        /\ api.inv1 >= 1
        /\ api.result \in {"raised", "ok", "unauthorized", "notok"}

\* ========================================================== claims: monitor
\* C39: a MonitorThread reports its trade as CLOSED exactly once and then
\* terminates, and the reason of its report follows the rules: TIMELY EXIT
\* at or after 15:25 before anything else, SL when the price has moved
\* against the position by the stop-loss, TP when it has moved in favour by
\* the take-profit.
AgainstBy(m, p, e) ==
    /\ m.sl.t = "text"
    /\ \/ m.action = "BUY" /\ p <= e - m.sl.v
       \/ m.action = "SELL" /\ p >= e + m.sl.v

InFavourBy(m, p, e) ==
    /\ m.tp.t = "text"
    /\ \/ m.action = "BUY" /\ p >= e + m.tp.v
       \/ m.action = "SELL" /\ p <= e - m.tp.v

\* The entry price: the trade's entry cell, or the sample when the cell
\* does not read as a number.
ClaimedEntry(m, p) == IF m.entry.t = "text" THEN m.entry.v ELSE p

ReportAsClaimed(m) ==
    LET r == m.reports[1]
        e == ClaimedEntry(m, r.ltp)
    IN /\ r.status = "CLOSED"
       /\ r.reason \in {"TIMELY EXIT", "SL", "TP"}
       /\ r.reason = "TIMELY EXIT" <=> m.read >= 925
       /\ r.reason = "SL" => AgainstBy(m, r.ltp, e)
       /\ r.reason = "TP" => InFavourBy(m, r.ltp, e)

\* A thread that went to sleep had no reason to close the trade.
SleepAsClaimed(m) ==
    /\ m.read < 925
    /\ ~AgainstBy(m, m.ltp.v, ClaimedEntry(m, m.ltp.v))
    /\ ~InFavourBy(m, m.ltp.v, ClaimedEntry(m, m.ltp.v))

C39_MonitorReportsOnce ==
    /\ [](Len(eval.reports) <= 1)
    /\ [](eval.pc = "ended" => Len(eval.reports) = 1 /\ ReportAsClaimed(eval))
    /\ [](eval.pc = "sleeping" => SleepAsClaimed(eval))
    /\ <>(eval.pc = "ended" /\ Len(eval.reports) = 1)

\* ================================================ claims: manager, part four
\* A step in which thread t's own refresh_token() or generate_token() call
\* ends by raising.
CallRaises(t) ==
    /\ th[t].op \in {"refresh", "generate"}
    /\ th[t].pc \in InFlight
    /\ th'[t].pc = "done"
    /\ th'[t].exc # NoneV

\* C36: when refresh_token() or generate_token() raises, the token record
\* in memory, the persisted records and the cached client are what they
\* were before the call.
C36_FailedCallChangesNothing ==
    [][\A t \in Threads :
        CallRaises(t) =>
            /\ tokens' = tokens
            /\ localFile' = localFile /\ remoteBlob' = remoteBlob
            /\ fyers' = fyers]_vars

\* A step in which thread t's exchange stores a token obtained by
\* refresh_token() or by generate_token().
RefreshIssues(t) ==
    /\ th[t].pc = "refresh_call" /\ th'[t].pc # "refresh_call"
    /\ th'[t].refreshOutcome = "token"

GenerateIssues(t) ==
    /\ th[t].pc = "gen_call" /\ th'[t].pc = "done"
    /\ th'[t].exc = NoneV /\ tokens'.access_token \notin {NoneV, ""}

\* The record is treated as not expired before `validity` seconds have
\* passed since `issued` and as expired from then on.
ValidFor(rec, issued, validity) ==
    \A d \in {0, validity \div 2, validity - 1, validity, validity + 1} :
        IsTokenExpired(rec, issued + d, tz) <=> d >= validity

\* C38: on a host at any offset from UTC, a token stored by refresh_token()
\* and one stored by generate_token() are both treated as not expired until
\* exactly token_validity_seconds after issue and as expired from then on.
C38_ExpiryOnOneClock ==
    [][\A t \in Threads :
        (RefreshIssues(t) \/ GenerateIssues(t)) =>
            ValidFor(tokens', now, 86400)]_vars

\* C40: a refresh_token() call that failed has sent exactly one
\* notification, whichever way it failed.
C40_OneNotificationPerFailure ==
    \A t \in Threads :
        (/\ th[t].op = "refresh" /\ th[t].pc = "done"
         /\ th[t].exc = "RefreshTokenError") => th[t].notes = 1

====
